---- MODULE Spec2Model ----
(***************************************************************************)
(* Model of mcp-charles.  The API comparison engine of src/server.py:      *)
(* _map_endpoints_across_files, _compare_request_response,                 *)
(* _analyze_api_differences, compare_api_structures, and the value         *)
(* comparators _deep_compare_structures and _compare_parameters.  The      *)
(* parse tools of src/server.py and read_large_file_part, with their       *)
(* callers src/client.py and src/large_file_example.py.                    *)
(***************************************************************************)
EXTENDS Integers, Sequences, FiniteSets, TLC

VARIABLES
    file_paths,          \* compare_api_structures: the paths it is called with
    fs,                  \* the file system: what has been read, made and written
    files_data,          \* compare_api_structures: the parsed content of each file
    file_names,          \* compare_api_structures: basename of each file
    pc,                  \* position of compare_api_structures
    idx,                 \* _map_endpoints_across_files: index of the file being folded
    entry_idx,           \* _map_endpoints_across_files: index of the entry being folded
    endpoint_mapping,    \* _map_endpoints_across_files: endpoint key -> record
    comparison_results,  \* _analyze_api_differences: endpoint key -> result
    summary,             \* compare_api_structures: the returned value
    obj1,                \* first argument of the value comparators
    obj2,                \* second argument of the value comparators
    applied,             \* which comparators have been applied to (obj1, obj2)
    diffs,               \* list returned by _deep_compare_structures
    pdiffs,              \* dict returned by _compare_parameters
    calls,               \* pending calls of _deep_compare_structures, innermost first
    tool_name,           \* the parse tool called
    tool_args,           \* its arguments
    tool_pc,             \* position of the parse tool
    tool_result,         \* the value the parse tool returned
    disk,                \* the log file, the output directory and the files written into it
    args,                \* client.py: the parsed command line
    client_pc,           \* position of client.py's main
    tool_calls,          \* client.py: the tools called so far, with what was printed over each result
    reader               \* large_file_example.py: the log file and the loop over its parts

vars == <<file_paths, fs, files_data, file_names, pc, idx, entry_idx, endpoint_mapping,
          comparison_results, summary, obj1, obj2, applied, diffs, pdiffs, calls,
          tool_name, tool_args, tool_pc, tool_result, disk, args, client_pc, tool_calls,
          reader>>

pipeVars == <<file_paths, fs, files_data, file_names, pc, idx, entry_idx, endpoint_mapping,
              comparison_results, summary>>

cmpVars == <<obj1, obj2, applied, diffs, pdiffs, calls>>

toolVars == <<tool_name, tool_args, tool_pc, tool_result, disk>>

clientVars == <<args, client_pc, tool_calls>>

\* the variables of the parse tools, of client.py and of large_file_example.py
logVars == <<toolVars, clientVars, reader>>

\* the variables of compare_api_structures and of the comparators
compareVars == <<pipeVars, cmpVars>>

(***************************************************************************)
(* JSON values as Python holds them after json.load.  Field t is           *)
(* type(obj).__name__.  A dict is its list of (key, value) pairs in        *)
(* insertion order, with pairwise distinct keys.                           *)
(***************************************************************************)
JNull == [t |-> "NoneType"]

JBool(b) == [t |-> "bool", b |-> b]

JInt(i) == [t |-> "int", i |-> i]

JStr(s) == [t |-> "str", s |-> s]

JDict(pairs) == [t |-> "dict", d |-> pairs]

JList(items) == [t |-> "list", l |-> items]

IsDict(v) == v.t = "dict"

IsList(v) == v.t = "list"

IsStr(v) == v.t = "str"

\* isinstance(v, (dict, list))
IsContainer(v) == IsDict(v) \/ IsList(v)

\* the keys of a dict, in insertion order
KeysOf(v) == [i \in 1..Len(v.d) |-> v.d[i][1]]

KeySet(v) == {v.d[i][1] : i \in 1..Len(v.d)}

\* key in v
HasKey(v, k) == k \in KeySet(v)

\* v[k]
Item(v, k) == v.d[CHOOSE i \in 1..Len(v.d) : v.d[i][1] = k][2]

\* v.get(k, default) on a dict
Get(v, k, default) == IF HasKey(v, k) THEN Item(v, k) ELSE default

\* the number a bool or int compares as
NumOf(v) == IF v.t = "bool" THEN (IF v.b THEN 1 ELSE 0) ELSE v.i

\* Python's truth value of v
Truthy(v) ==
    CASE v.t = "NoneType" -> FALSE
      [] v.t = "bool" -> v.b
      [] v.t = "int" -> v.i # 0
      [] v.t = "str" -> v.s # ""
      [] v.t = "dict" -> v.d # <<>>
      [] v.t = "list" -> v.l # <<>>

\* Python's ==: dicts by key set and values, lists element-wise, bool and int
\* by number, everything else by type and value.
RECURSIVE PyEq(_, _)
PyEq(x, y) ==
    CASE IsDict(x) /\ IsDict(y) ->
            /\ KeySet(x) = KeySet(y)
            /\ \A k \in KeySet(x) : PyEq(Item(x, k), Item(y, k))
      [] IsList(x) /\ IsList(y) ->
            /\ Len(x.l) = Len(y.l)
            /\ \A i \in 1..Len(x.l) : PyEq(x.l[i], y.l[i])
      [] x.t \in {"bool", "int"} /\ y.t \in {"bool", "int"} -> NumOf(x) = NumOf(y)
      [] OTHER -> x.t = y.t /\ x = y

\* sep.join(parts)
RECURSIVE JoinWith(_, _)
JoinWith(parts, sep) ==
    IF parts = <<>> THEN ""
    ELSE IF Len(parts) = 1 THEN parts[1]
    ELSE parts[1] \o sep \o JoinWith(Tail(parts), sep)

\* repr(v), and str(v) for everything but a top-level string
RECURSIVE PyRepr(_)
PyRepr(v) ==
    CASE v.t = "NoneType" -> "None"
      [] v.t = "bool" -> IF v.b THEN "True" ELSE "False"
      [] v.t = "int" -> ToString(v.i)
      [] v.t = "str" -> "'" \o v.s \o "'"
      [] v.t = "dict" ->
            "{" \o JoinWith([i \in 1..Len(v.d) |->
                              "'" \o v.d[i][1] \o "': " \o PyRepr(v.d[i][2])], ", ") \o "}"
      [] v.t = "list" ->
            "[" \o JoinWith([i \in 1..Len(v.l) |-> PyRepr(v.l[i])], ", ") \o "]"

\* str(v)
PyStr(v) == IF IsStr(v) THEN v.s ELSE PyRepr(v)

\* the length diff values are cut to
MaxValueLen == 100

\* str(v), whole
Str100_Whole(v) == JStr(PyStr(v))

\* str(v)[:100]
Str100(v) ==
    LET s == PyStr(v)
    IN  JStr(IF Len(s) <= MaxValueLen THEN s ELSE SubSeq(s, 1, MaxValueLen))

\* ".".join(path)
PathJoin(path) == JoinWith(path, ".")

\* ".".join(path) or "root"
PathOrRoot(path) == IF PathJoin(path) = "" THEN "root" ELSE PathJoin(path)

\* f"[{i}]" for the Python index of the i-th element
IndexName(i) == "[" \o ToString(i - 1) \o "]"

(***************************************************************************)
(* json.dumps / json.loads.  JsonText is the compact JSON text of a value; *)
(* JsonLoads inverts it over the texts of the values in JsonDecodable and  *)
(* fails (JSONDecodeError) on every other string.                          *)
(***************************************************************************)
RECURSIVE JsonText(_)
JsonText(v) ==
    CASE v.t = "NoneType" -> "null"
      [] v.t = "bool" -> IF v.b THEN "true" ELSE "false"
      [] v.t = "int" -> ToString(v.i)
      [] v.t = "str" -> "\"" \o v.s \o "\""
      [] v.t = "dict" ->
            "{" \o JoinWith([i \in 1..Len(v.d) |->
                              "\"" \o v.d[i][1] \o "\":" \o JsonText(v.d[i][2])], ",") \o "}"
      [] v.t = "list" ->
            "[" \o JoinWith([i \in 1..Len(v.l) |-> JsonText(v.l[i])], ",") \o "]"

\* the values whose JSON text occurs as a string in the model
JsonDecodable ==
    { JDict(<<>>),
      JDict(<< <<"status", JStr("OK")>> >>),
      JDict(<< <<"status", JStr("FAIL")>> >>),
      JDict(<< <<"code", JInt(1)>>, <<"message", JStr("OK")>> >>),
      JDict(<< <<"code", JInt(2)>>, <<"message", JStr("OK")>> >>),
      JList(<<JInt(1)>>),
      JInt(1) }

JsonParses(s) == \E v \in JsonDecodable : JsonText(v) = s

JsonLoads(s) == CHOOSE v \in JsonDecodable : JsonText(v) = s

\* _try_parse_json
_try_parse_json(payload) ==
    IF IsStr(payload) /\ JsonParses(payload.s) THEN JsonLoads(payload.s) ELSE payload

(***************************************************************************)
(* _deep_compare_structures: the list of differences, in emission order.   *)
(* A value of None in an entry is JNull, a string is JStr.                 *)
(***************************************************************************)
\* str(v)[:100] if include_values else None
ValueIf(include_values, v) == IF include_values THEN Str100(v) ELSE JNull

\* the member test with == written for !=
MemberDiffers_Inverted(v1, v2) == PyEq(v1, v2)

\* obj1[key] != obj2[key], the test on a primitive member (server.py 1801, 1839)
MemberDiffers(v1, v2) == ~PyEq(v1, v2)

RECURSIVE _deep_compare_structures(_, _, _, _)
RECURSIVE DictKeysOfFirst(_, _, _, _, _)
RECURSIVE DictKeysOfSecond(_, _, _, _, _)
RECURSIVE ListItems(_, _, _, _, _)

\* for key in obj1: ... (keys i.. of obj1)
DictKeysOfFirst(o1, o2, path, include_values, i) ==
    IF i > Len(o1.d) THEN <<>>
    ELSE
        LET key == o1.d[i][1]
            v1 == o1.d[i][2]
            here ==
                IF ~HasKey(o2, key)
                THEN << [path |-> PathJoin(Append(path, key)),
                         difference |-> "field_missing_in_second",
                         value |-> ValueIf(include_values, v1)] >>
                ELSE IF ~IsContainer(v1)
                THEN IF MemberDiffers(v1, Item(o2, key))
                     THEN << [path |-> PathJoin(Append(path, key)),
                              difference |-> "value_changed",
                              value1 |-> Str100(v1),
                              value2 |-> Str100(Item(o2, key))] >>
                     ELSE <<>>
                ELSE _deep_compare_structures(v1, Item(o2, key), Append(path, key),
                                              include_values)
        IN  here \o DictKeysOfFirst(o1, o2, path, include_values, i + 1)

\* for key in obj2: if key not in obj1: ... (keys i.. of obj2)
DictKeysOfSecond(o1, o2, path, include_values, i) ==
    IF i > Len(o2.d) THEN <<>>
    ELSE
        LET key == o2.d[i][1]
            here ==
                IF ~HasKey(o1, key)
                THEN << [path |-> PathJoin(Append(path, key)),
                         difference |-> "field_missing_in_first",
                         value |-> ValueIf(include_values, o2.d[i][2])] >>
                ELSE <<>>
        IN  here \o DictKeysOfSecond(o1, o2, path, include_values, i + 1)

\* for i in range(max_items): ... (items i.. below the shorter length)
ListItems(o1, o2, path, include_values, i) ==
    LET max_items == IF Len(o1.l) < Len(o2.l) THEN Len(o1.l) ELSE Len(o2.l)
    IN  IF i > max_items THEN <<>>
        ELSE
            LET item_path == Append(path, IndexName(i))
                here ==
                    IF ~IsContainer(o1.l[i])
                    THEN IF MemberDiffers(o1.l[i], o2.l[i])
                         THEN << [path |-> PathJoin(item_path),
                                  difference |-> "array_item_changed",
                                  value1 |-> Str100(o1.l[i]),
                                  value2 |-> Str100(o2.l[i])] >>
                         ELSE <<>>
                    ELSE _deep_compare_structures(o1.l[i], o2.l[i], item_path,
                                                  include_values)
            IN  here \o ListItems(o1, o2, path, include_values, i + 1)

\* the extra_item entry for the first surplus item only
ExtraItems_FirstOnly(o1, o2, path, include_values) ==
    IF Len(o1.l) > Len(o2.l)
    THEN << [path |-> PathJoin(Append(path, IndexName(Len(o2.l) + 1))),
             difference |-> "extra_item_in_first",
             value |-> ValueIf(include_values, o1.l[Len(o2.l) + 1])] >>
    ELSE IF Len(o2.l) > Len(o1.l)
    THEN << [path |-> PathJoin(Append(path, IndexName(Len(o1.l) + 1))),
             difference |-> "extra_item_in_second",
             value |-> ValueIf(include_values, o2.l[Len(o1.l) + 1])] >>
    ELSE <<>>

\* the extra_item entries for the items of the longer list
ExtraItems(o1, o2, path, include_values) ==
    IF Len(o1.l) > Len(o2.l)
    THEN [j \in 1..(Len(o1.l) - Len(o2.l)) |->
            [path |-> PathJoin(Append(path, IndexName(Len(o2.l) + j))),
             difference |-> "extra_item_in_first",
             value |-> ValueIf(include_values, o1.l[Len(o2.l) + j])]]
    ELSE IF Len(o2.l) > Len(o1.l)
    THEN [j \in 1..(Len(o2.l) - Len(o1.l)) |->
            [path |-> PathJoin(Append(path, IndexName(Len(o1.l) + j))),
             difference |-> "extra_item_in_second",
             value |-> ValueIf(include_values, o2.l[Len(o1.l) + j])]]
    ELSE <<>>

_deep_compare_structures(o1, o2, path, include_values) ==
    IF IsDict(o1) /\ IsDict(o2)
    THEN DictKeysOfFirst(o1, o2, path, include_values, 1)
         \o DictKeysOfSecond(o1, o2, path, include_values, 1)
    ELSE IF IsList(o1) /\ IsList(o2)
    THEN (IF Len(o1.l) # Len(o2.l)
          THEN << [path |-> PathOrRoot(path),
                   difference |-> "array_length_changed",
                   length1 |-> Len(o1.l),
                   length2 |-> Len(o2.l)] >>
          ELSE <<>>)
         \o ListItems(o1, o2, path, include_values, 1)
         \o ExtraItems(o1, o2, path, include_values)
    ELSE IF o1.t # o2.t
    THEN << [path |-> PathOrRoot(path),
             difference |-> "type_changed",
             type1 |-> o1.t,
             type2 |-> o2.t,
             value1 |-> ValueIf(include_values, o1),
             value2 |-> ValueIf(include_values, o2)] >>
    ELSE IF ~PyEq(o1, o2)
    THEN << [path |-> PathOrRoot(path),
             difference |-> "value_changed",
             value1 |-> Str100(o1),
             value2 |-> Str100(o2)] >>
    ELSE <<>>

(***************************************************************************)
(* _compare_parameters: the dict path -> difference it returns, as a       *)
(* function.  file1 and file2 are fixed to "file1" and "file2", which      *)
(* names the fields file1_value, file2_length, ...                         *)
(***************************************************************************)
NoDifferences == [p \in {} |-> JNull]

\* differences.update(nested): the later entry for a path replaces the earlier
Update(differences, nested) == nested @@ differences

\* ".".join(path) if path else "root"
CurrentPath(path) == IF path = <<>> THEN "root" ELSE PathJoin(path)

\* set(param1.keys()) | set(param2.keys()), in one iteration order; the
\* result is a dict keyed by path, so the order only decides which entry two
\* keys with the same joined path leave behind.
AllKeys(p1, p2) == KeysOf(p1) \o SelectSeq(KeysOf(p2), LAMBDA k : ~HasKey(p1, k))

RECURSIVE _compare_parameters(_, _, _)
RECURSIVE ParamKeys(_, _, _, _)
RECURSIVE ParamItems(_, _, _, _)

\* for key in all_keys: ... (keys i.. of all_keys)
ParamKeys(p1, p2, path, keys) ==
    IF keys = <<>> THEN NoDifferences
    ELSE
        LET key == Head(keys)
            new_path == Append(path, key)
            here ==
                IF ~HasKey(p1, key)
                THEN PathJoin(new_path) :> [type |-> "missing_in_first",
                                            value |-> Str100(Item(p2, key))]
                ELSE IF ~HasKey(p2, key)
                THEN PathJoin(new_path) :> [type |-> "missing_in_second",
                                            value |-> Str100(Item(p1, key))]
                ELSE _compare_parameters(Item(p1, key), Item(p2, key), new_path)
        IN  Update(here, ParamKeys(p1, p2, path, Tail(keys)))

\* for i in range(max_items): ... (items i.. below the shorter length)
ParamItems(p1, p2, path, i) ==
    LET max_items == IF Len(p1.l) < Len(p2.l) THEN Len(p1.l) ELSE Len(p2.l)
    IN  IF i > max_items THEN NoDifferences
        ELSE Update(_compare_parameters(p1.l[i], p2.l[i], Append(path, IndexName(i))),
                    ParamItems(p1, p2, path, i + 1))

\* the extra_in_first / extra_in_second entries
ParamExtra(p1, p2, path) ==
    LET max_items == IF Len(p1.l) < Len(p2.l) THEN Len(p1.l) ELSE Len(p2.l)
        extra1 == {i \in 1..Len(p1.l) : i > max_items}
        extra2 == {i \in 1..Len(p2.l) : i > max_items}
        name(i) == PathJoin(Append(path, IndexName(i)))
    IN  [p \in {name(i) : i \in extra1 \cup extra2} |->
            LET i == CHOOSE j \in extra1 \cup extra2 : name(j) = p
            IN  IF i \in extra1
                THEN [type |-> "extra_in_first", value |-> Str100(p1.l[i])]
                ELSE [type |-> "extra_in_second", value |-> Str100(p2.l[i])]]

_compare_parameters(p1, p2, path) ==
    LET current_path == CurrentPath(path)
    IN  IF p1 = JNull /\ p2 = JNull THEN NoDifferences
        ELSE IF p1 = JNull
        THEN current_path :> [type |-> "missing_in_first", value |-> Str100(p2)]
        ELSE IF p2 = JNull
        THEN current_path :> [type |-> "missing_in_second", value |-> Str100(p1)]
        ELSE IF IsDict(p1) /\ IsDict(p2)
        THEN ParamKeys(p1, p2, path, AllKeys(p1, p2))
        ELSE IF IsList(p1) /\ IsList(p2)
        THEN Update(Update(IF Len(p1.l) # Len(p2.l)
                           THEN current_path :> [type |-> "length_mismatch",
                                                 file1_length |-> Len(p1.l),
                                                 file2_length |-> Len(p2.l)]
                           ELSE NoDifferences,
                           ParamItems(p1, p2, path, 1)),
                    ParamExtra(p1, p2, path))
        ELSE
            LET parsed1 == _try_parse_json(p1)
                parsed2 == _try_parse_json(p2)
            IN  IF parsed1.t # parsed2.t
                THEN current_path :> [type |-> "type_mismatch",
                                      file1_type |-> parsed1.t,
                                      file2_type |-> parsed2.t,
                                      file1_value |-> Str100(parsed1),
                                      file2_value |-> Str100(parsed2)]
                ELSE IF ~PyEq(parsed1, parsed2)
                THEN current_path :> [type |-> "value_mismatch",
                                      file1_value |-> Str100(parsed1),
                                      file2_value |-> Str100(parsed2)]
                ELSE NoDifferences

(***************************************************************************)
(* _map_endpoints_across_files: the loop body for one entry.               *)
(***************************************************************************)
\* entry.get(k, {})
SubDict(entry, k) == Get(entry, k, JDict(<<>>))

\* data.get('data', data.get('entries', []))
EntriesOf(data) == Get(data, "data", Get(data, "entries", JList(<<>>)))

\* "?" + q if q else ""
QueryFrom(q) == IF Truthy(q) THEN "?" \o q.s ELSE ""

\* the query lookup with the two fields tried in the other order
QueryOf_QueryStringFirst(request) ==
    IF HasKey(request, "queryString") THEN QueryFrom(Item(request, "queryString"))
    ELSE IF HasKey(request, "query") THEN QueryFrom(Item(request, "query"))
    ELSE ""

\* query of a request: "query" if the key is there, else "queryString" (1399-1402)
QueryOf(request) ==
    IF HasKey(request, "query") THEN QueryFrom(Item(request, "query"))
    ELSE IF HasKey(request, "queryString") THEN QueryFrom(Item(request, "queryString"))
    ELSE ""

\* method = entry.get("method", entry.get("request", {}).get("method", "UNKNOWN"))
MethodOf(entry) ==
    Get(entry, "method", Get(SubDict(entry, "request"), "method", JStr("UNKNOWN")))

\* full_path: ":path" when truthy, else path + query (1390-1403)
FullPathOf(entry) ==
    LET full_path == Get(entry, ":path", JNull)
    IN  IF Truthy(full_path) THEN full_path
        ELSE JStr(Get(entry, "path", JStr("UNKNOWN")).s
                  \o (IF HasKey(entry, "request")
                      THEN QueryOf(Item(entry, "request")) ELSE ""))

\* endpoint_key = f"{method}:{full_path}"
EndpointKeyOf(entry) == PyStr(MethodOf(entry)) \o ":" \o PyStr(FullPathOf(entry))

\* the loop body raising also on a response body that is no JSON text
\* (json.loads outside the try)
EntryRaises_OnBadBody(entry) ==
    \/ ~IsDict(entry)
    \/ /\ IsDict(entry)
       /\ HasKey(entry, "response")
       /\ \/ ~IsDict(Item(entry, "response"))
          \/ LET body == Get(Item(entry, "response"), "body", JNull)
             IN  IsStr(body) /\ ~JsonParses(body.s)

\* the entry makes the loop body raise (AttributeError or TypeError):
\* entry.get on a non-dict, .get on a request or response that is no dict,
\* "?" + a query that is no string, path + query with a path that is no string
EntryRaises(entry) ==
    \/ ~IsDict(entry)
    \/ /\ IsDict(entry)
       /\ \/ HasKey(entry, "request") /\ ~IsDict(Item(entry, "request"))
          \/ HasKey(entry, "response") /\ ~IsDict(Item(entry, "response"))
          \/ /\ ~Truthy(Get(entry, ":path", JNull))
             /\ \/ ~IsStr(Get(entry, "path", JStr("UNKNOWN")))
                \/ /\ HasKey(entry, "request")
                   /\ IsDict(Item(entry, "request"))
                   /\ LET request == Item(entry, "request")
                          q == IF HasKey(request, "query") THEN Item(request, "query")
                               ELSE Get(request, "queryString", JStr(""))
                      IN  Truthy(q) /\ ~IsStr(q)

\* instance_data (1436-1451); index is the Python index of the entry
InstanceData(entry, i) ==
    LET request == SubDict(entry, "request")
        response == SubDict(entry, "response")
    IN  [index |-> i - 1,
         status |-> Get(entry, "status", Get(response, "status", JNull)),
         timestamp |-> Get(entry, "timestamp", JNull),
         request |-> JDict(<<
            <<"headers", Get(entry, "request_headers", Get(request, "headers", JDict(<<>>)))>>,
            <<"body", Get(entry, "request_body", Get(request, "body", JNull))>>,
            <<"cookies", Get(entry, "request_cookies", Get(request, "cookies", JList(<<>>)))>>,
            <<"query_params", Get(entry, "request_query_params",
                                  Get(request, "query_params", JList(<<>>)))>> >>),
         response |-> JDict(<<
            <<"headers", Get(entry, "response_headers", Get(response, "headers", JDict(<<>>)))>>,
            <<"body", Get(entry, "response_body", Get(response, "body", JNull))>>,
            <<"cookies", Get(entry, "response_cookies",
                             Get(response, "cookies", JList(<<>>)))>> >>)]

\* a or b
PyOr(a, b) == IF Truthy(a) THEN a ELSE b

\* the response_status_summary _compare_request_response stores for file_name:
\* a list of no or one item (1509-1529)
StatusSummaryOf(response, file_name) ==
    LET raw == Item(response, "body")
        decodes == ~IsStr(raw) \/ JsonParses(raw.s)
        body == IF IsStr(raw) THEN JsonLoads(raw.s) ELSE raw
    IN  IF Truthy(raw) /\ decodes /\ IsDict(body)
        THEN LET status == PyOr(PyOr(Get(body, "status", JNull),
                                     Get(body, "statusCode", JNull)),
                                Get(body, "code", JNull))
                 message == PyOr(Get(body, "message", JNull),
                                 Get(body, "statusMessage", JNull))
             IN  IF Truthy(status) \/ Truthy(message)
                 THEN << [file |-> file_name, status |-> status, message |-> message] >>
                 ELSE <<>>
        ELSE <<>>

\* differences[comparison_key] as the loop body leaves it (1461-1483): the
\* dict is built anew from the current instance alone.  Each of its members
\* is a dict with the one key file_name, written as a list of one item, or
\* is absent, written as the empty list.
PairData(comparison_key, file_name, instance_data) ==
    [key |-> comparison_key,
     pair |-> TRUE,
     instance_details |-> << [file |-> file_name, available |-> TRUE,
                              index |-> instance_data.index,
                              timestamp |-> instance_data.timestamp] >>,
     status_difference |->
        IF instance_data.status # JNull
        THEN << [file |-> file_name, status |-> instance_data.status] >>
        ELSE <<>>,
     request_differences |-> << [file |-> file_name, data |-> instance_data.request] >>,
     response_differences |-> << [file |-> file_name, data |-> instance_data.response] >>,
     response_status_summary |-> StatusSummaryOf(instance_data.response, file_name)]

\* the five members "differences" starts with, each an empty dict
EmptyDifference(k) == [key |-> k, pair |-> FALSE]

InitialDifferences ==
    << EmptyDifference("request"), EmptyDifference("response"),
       EmptyDifference("headers"), EmptyDifference("status_codes"),
       EmptyDifference("parameters") >>

\* endpoint_mapping[endpoint_key] when the key is first seen (1410-1424)
NewEndpoint(method, full_path) ==
    [method |-> method,
     path |-> full_path,
     has_changes |-> FALSE,
     present_in |-> <<>>,
     missing_in |-> <<>>,
     instance_counts |-> [f \in {} |-> 0],
     differences |-> InitialDifferences]

SeqRange(s) == {s[i] : i \in 1..Len(s)}

\* differences[k] = item: in place when k is a key already, appended otherwise
SetDifference(differences, item) ==
    IF \E i \in 1..Len(differences) : differences[i].key = item.key
    THEN [i \in 1..Len(differences) |->
            IF differences[i].key = item.key THEN item ELSE differences[i]]
    ELSE Append(differences, item)

\* the count with the increment lost once the file has an entry
CountUp_Once(counts, file_name) ==
    IF file_name \in DOMAIN counts THEN counts ELSE (file_name :> 1) @@ counts

\* instance_counts after counting one more entry of file_name (1431-1433)
CountUp(counts, file_name) ==
    IF file_name \in DOMAIN counts
    THEN [counts EXCEPT ![file_name] = @ + 1]
    ELSE (file_name :> 1) @@ counts

\* the loop over present_in left after its first pass
ComparePrevious_FirstOnly(differences, others, file_name, instance_data) ==
    IF others = <<>> \/ Head(others) = file_name THEN differences
    ELSE SetDifference(differences,
                       PairData(file_name \o "_vs_" \o Head(others), file_name, instance_data))

\* for other_file in present_in: if other_file != file_name: ... (1454-1483)
RECURSIVE ComparePrevious(_, _, _, _)
ComparePrevious(differences, others, file_name, instance_data) ==
    IF others = <<>> THEN differences
    ELSE ComparePrevious(
            IF Head(others) # file_name
            THEN SetDifference(differences,
                               PairData(file_name \o "_vs_" \o Head(others),
                                        file_name, instance_data))
            ELSE differences,
            Tail(others), file_name, instance_data)

\* endpoint_mapping after the loop body for entry number i of file_name
FoldEntry(mapping, file_name, entry, i) ==
    LET endpoint_key == EndpointKeyOf(entry)
        old == IF endpoint_key \in DOMAIN mapping THEN mapping[endpoint_key]
               ELSE NewEndpoint(MethodOf(entry), FullPathOf(entry))
        present_in == IF file_name \in SeqRange(old.present_in) THEN old.present_in
                      ELSE Append(old.present_in, file_name)
        new == [old EXCEPT
                  !.present_in = present_in,
                  !.instance_counts = CountUp(old.instance_counts, file_name),
                  !.differences = ComparePrevious(old.differences, present_in, file_name,
                                                  InstanceData(entry, i))]
    IN  (endpoint_key :> new) @@ mapping

\* the loop over the entries of one file, from entry number j on (1386-1483)
RECURSIVE FoldFile(_, _, _, _)
FoldFile(mapping, file_name, entries, j) ==
    IF j > Len(entries) THEN mapping
    ELSE FoldFile(FoldEntry(mapping, file_name, entries[j], j), file_name, entries, j + 1)

\* the loop over the files, from file number i on (1380-1384)
RECURSIVE FoldFiles(_, _, _, _)
FoldFiles(mapping, files, names, i) ==
    IF i > Len(files) THEN mapping
    ELSE FoldFiles(IF Truthy(EntriesOf(files[i]))
                   THEN FoldFile(mapping, names[i], EntriesOf(files[i]).l, 1)
                   ELSE mapping,
                   files, names, i + 1)

\* _map_endpoints_across_files(files_data, file_names), no entry raising
_map_endpoints_across_files(files, names) ==
    FoldFiles([k \in {} |-> NewEndpoint(JNull, JNull)], files, names, 1)

(***************************************************************************)
(* _analyze_api_differences.                                               *)
(***************************************************************************)
\* the threshold with an endpoint of one file let through
SkipEndpoint_OnlyAbsent(endpoint_data) == Len(endpoint_data.present_in) < 1

\* if len(endpoint_data["present_in"]) < 2: continue
SkipEndpoint(endpoint_data) == Len(endpoint_data.present_in) < 2

\* result["response_body_differences"][k]: a parsed body stored under a file
\* name, or the dict stored under a comparison key, whose "differences" is
\* written as the empty list while it is absent.  (File names and comparison
\* keys share the dict; the two kinds of key are told apart by isbody.)
BodyEntry(parsed_body) == [isbody |-> TRUE, body |-> parsed_body, differences |-> <<>>]

PairEntry(differences) == [isbody |-> FALSE, body |-> JNull, differences |-> differences]

\* the state of the first loop: the two summaries and the flag
NoSummary == [f \in {} |-> [code |-> JNull, message |-> JNull]]

NoBodies == [k \in {} |-> PairEntry(<<>>)]

\* for other_file in file_names: if other_file != file_name: ... (1698-1710)
RECURSIVE CompareBodies(_, _, _, _)
CompareBodies(st, others, file_name, parsed_body) ==
    IF others = <<>> THEN st
    ELSE
        LET other_file == Head(others)
            comparison_key == file_name \o "_vs_" \o other_file
            rbd1 == IF comparison_key \in DOMAIN st.rbd THEN st.rbd
                    ELSE (comparison_key :> PairEntry(<<>>)) @@ st.rbd
            compared == other_file \in DOMAIN rbd1 /\ rbd1[other_file].isbody
            differences ==
                IF compared
                THEN _deep_compare_structures(parsed_body, rbd1[other_file].body, <<>>, TRUE)
                ELSE <<>>
            next ==
                IF other_file = file_name THEN st
                ELSE IF differences # <<>>
                THEN [st EXCEPT !.rbd = (comparison_key :> PairEntry(differences)) @@ rbd1,
                                !.has_changes = TRUE]
                ELSE [st EXCEPT !.rbd = rbd1]
        IN  CompareBodies(next, Tail(others), file_name, parsed_body)

\* the body of the first loop for one member of "differences" (1676-1712)
SummarizeResponse(st, comparison_data, present_in) ==
    IF ~comparison_data.pair THEN st
    ELSE
        LET file_name == comparison_data.response_differences[1].file
            body == Item(comparison_data.response_differences[1].data, "body")
            text == IF IsDict(body) THEN Get(body, "text", JNull) ELSE JNull
            parses == Truthy(text) /\ IsStr(text) /\ JsonParses(text.s)
            parsed_body == JsonLoads(text.s)
        IN  IF parses /\ IsDict(parsed_body)
            THEN LET status_code == PyOr(Get(parsed_body, "statusCode", JNull),
                                         Get(parsed_body, "code", JNull))
                     status_message == PyOr(Get(parsed_body, "statusMessage", JNull),
                                            Get(parsed_body, "message", JNull))
                     rss == IF Truthy(status_code) \/ Truthy(status_message)
                            THEN (file_name :> [code |-> status_code,
                                                message |-> status_message]) @@ st.rss
                            ELSE st.rss
                     rbd == (file_name :> BodyEntry(parsed_body)) @@ st.rbd
                 IN  CompareBodies([st EXCEPT !.rss = rss, !.rbd = rbd],
                                   present_in, file_name, parsed_body)
            ELSE st

\* for comparison_key, comparison_data in endpoint_data["differences"].items()
RECURSIVE SummarizeAll(_, _, _)
SummarizeAll(st, differences, present_in) ==
    IF differences = <<>> THEN st
    ELSE SummarizeAll(SummarizeResponse(st, Head(differences), present_in),
                      Tail(differences), present_in)

\* the second loop: a member of "differences" that is a non-empty dict (1715-1718)
AnyComparisonData(differences) ==
    \E i \in 1..Len(differences) : differences[i].pair

\* the result of one endpoint (1661-1721)
AnalyzeEndpoint(endpoint_data) ==
    LET st == SummarizeAll([rss |-> NoSummary, rbd |-> NoBodies, has_changes |-> FALSE],
                           endpoint_data.differences, endpoint_data.present_in)
    IN  [method |-> endpoint_data.method,
         path |-> endpoint_data.path,
         has_changes |-> st.has_changes \/ AnyComparisonData(endpoint_data.differences),
         present_in |-> endpoint_data.present_in,
         missing_in |-> endpoint_data.missing_in,
         instance_counts |-> endpoint_data.instance_counts,
         differences |-> endpoint_data.differences,
         response_status_summary |-> st.rss,
         response_body_differences |-> st.rbd]

\* comparison_level is read by no statement of the function
_analyze_api_differences(mapping, comparison_level) ==
    [k \in {e \in DOMAIN mapping : ~SkipEndpoint(mapping[e])} |->
        AnalyzeEndpoint(mapping[k])]

(***************************************************************************)
(* compare_api_structures, from the loading of the files on.               *)
(***************************************************************************)
\* fewest files compare_api_structures accepts
MinFiles == 2

\* most files compare_api_structures accepts
MaxFiles == 3

ComparisonLevels == {"basic", "detailed", "comprehensive"}

NoEndpoints == [k \in {} |-> NewEndpoint(JNull, JNull)]

NoResults == [k \in {} |-> AnalyzeEndpoint(NewEndpoint(JNull, JNull))]

NoSummaryYet == [status |-> "running"]

\* no parse tool is called, client.py and large_file_example.py do not run
ToolIdle ==
    /\ tool_name = "none"
    /\ tool_args = <<>>
    /\ tool_pc = "idle"
    /\ tool_result = <<>>
    /\ disk = <<>>

ClientIdle ==
    /\ args = <<>>
    /\ client_pc = "idle"
    /\ tool_calls = <<>>

ReaderIdle == reader = <<>>

LogIdle == ToolIdle /\ ClientIdle /\ ReaderIdle

CmpIdle ==
    /\ obj1 = JNull
    /\ obj2 = JNull
    /\ applied = {}
    /\ diffs = <<>>
    /\ pdiffs = NoDifferences
    /\ calls = <<>>
    /\ LogIdle

\* the file system before the call: the output directory is there or not,
\* no file has been opened, no report written
NoFiles(out_dir) == [out_dir |-> out_dir, opened |-> <<>>, reports |-> 0]

\* the entries of the file being folded
CurrentEntries == EntriesOf(files_data[idx]).l

\* the position after the entry, or the file, at (idx, entry_idx) is done
Advance(next_idx, next_entry) ==
    /\ idx' = next_idx
    /\ entry_idx' = next_entry
    /\ pc' = IF next_idx > Len(files_data) THEN "analyze" ELSE "map"

\* if not entries: continue
SkipFile ==
    /\ pc = "map"
    /\ ~Truthy(EntriesOf(files_data[idx]))
    /\ Advance(idx + 1, 1)
    /\ UNCHANGED <<file_paths, fs, files_data, file_names, endpoint_mapping, comparison_results, summary>>
    /\ UNCHANGED cmpVars
    /\ UNCHANGED logVars

\* one pass of the loop that takes the entry out of the file it was read from
MapEntry_Consuming ==
    /\ pc = "map"
    /\ Truthy(EntriesOf(files_data[idx]))
    /\ ~EntryRaises(CurrentEntries[entry_idx])
    /\ endpoint_mapping' = FoldEntry(endpoint_mapping, file_names[idx],
                                     CurrentEntries[entry_idx], entry_idx)
    /\ files_data' = [files_data EXCEPT ![idx] = JDict(<< <<"data", JList(<<>>)>> >>)]
    /\ Advance(idx + 1, 1)
    /\ UNCHANGED <<file_paths, fs, file_names, comparison_results, summary>>
    /\ UNCHANGED cmpVars
    /\ UNCHANGED logVars

\* one pass of the loop over the entries of a file
MapEntry ==
    /\ pc = "map"
    /\ Truthy(EntriesOf(files_data[idx]))
    /\ ~EntryRaises(CurrentEntries[entry_idx])
    /\ endpoint_mapping' = FoldEntry(endpoint_mapping, file_names[idx],
                                     CurrentEntries[entry_idx], entry_idx)
    /\ IF entry_idx < Len(CurrentEntries)
       THEN Advance(idx, entry_idx + 1)
       ELSE Advance(idx + 1, 1)
    /\ UNCHANGED <<file_paths, fs, files_data, file_names, comparison_results, summary>>
    /\ UNCHANGED cmpVars
    /\ UNCHANGED logVars

\* the loop body raises; compare_api_structures catches it (1362-1363)
MapEntryRaises ==
    /\ pc = "map"
    /\ Truthy(EntriesOf(files_data[idx]))
    /\ EntryRaises(CurrentEntries[entry_idx])
    /\ pc' = "error"
    /\ summary' = [error |-> "Error comparing API structures"]
    /\ UNCHANGED <<file_paths, fs, files_data, file_names, idx, entry_idx, endpoint_mapping,
                   comparison_results>>
    /\ UNCHANGED cmpVars
    /\ UNCHANGED logVars

\* comparison_results = _analyze_api_differences(endpoint_mapping, comparison_level)
Analyze ==
    /\ pc = "analyze"
    /\ \E comparison_level \in ComparisonLevels :
          comparison_results' = _analyze_api_differences(endpoint_mapping, comparison_level)
    /\ pc' = "report"
    /\ UNCHANGED <<file_paths, fs, files_data, file_names, idx, entry_idx, endpoint_mapping, summary>>
    /\ UNCHANGED cmpVars
    /\ UNCHANGED logVars

\* len(endpoint_mapping), the count both the report file and the summary carry
TotalEndpoints(mapping, results) == Cardinality(DOMAIN mapping)

\* the summary returned; "detailed_results" is comparison_results (1331-1360)
Report ==
    /\ pc = "report"
    /\ summary' =
          [status |-> "success",
           total_endpoints |-> TotalEndpoints(endpoint_mapping, comparison_results),
           endpoints_with_changes |->
              Cardinality({k \in DOMAIN comparison_results :
                              comparison_results[k].has_changes}),
           files_compared |-> file_names]
    /\ fs' = [fs EXCEPT !.reports = @ + 1]
    /\ pc' = "done"
    /\ UNCHANGED <<file_paths, files_data, file_names, idx, entry_idx, endpoint_mapping,
                   comparison_results>>
    /\ UNCHANGED cmpVars
    /\ UNCHANGED logVars

\* the failure of the write with the report file left behind
ReportRaises_AfterWrite ==
    /\ pc = "report"
    /\ pc' = "error"
    /\ summary' = [error |-> "Error comparing API structures"]
    /\ fs' = [fs EXCEPT !.reports = @ + 1]
    /\ UNCHANGED <<file_paths, files_data, file_names, idx, entry_idx, endpoint_mapping,
                   comparison_results>>
    /\ UNCHANGED cmpVars
    /\ UNCHANGED logVars

\* open(output_file, 'w') raises (the directory is gone or not writable): no
\* file is made, and compare_api_structures catches it (1347, 1362-1363)
ReportRaises ==
    /\ pc = "report"
    /\ pc' = "error"
    /\ summary' = [error |-> "Error comparing API structures"]
    /\ UNCHANGED <<file_paths, fs, files_data, file_names, idx, entry_idx, endpoint_mapping,
                   comparison_results>>
    /\ UNCHANGED cmpVars
    /\ UNCHANGED logVars

Next == SkipFile \/ MapEntry \/ MapEntryRaises \/ Analyze \/ Report \/ ReportRaises

(***************************************************************************)
(* The files compare_api_structures is run on.                             *)
(***************************************************************************)
\* most entries in all files together
MaxEntries == 3

\* an entry in the nested layout, as the parse tools write it
MkEntry(method, path, status, request_body, response_body) ==
    JDict(<< <<"method", JStr(method)>>,
             <<"path", JStr(path)>>,
             <<"status", status>>,
             <<"timestamp", JStr("2024-05-23T10:00:00")>>,
             <<"request", JDict(<< <<"headers", JDict(<<>>)>>,
                                   <<"body", request_body>> >>)>>,
             <<"response", JDict(<< <<"headers", JDict(<<>>)>>,
                                    <<"body", response_body>> >>)>> >>)

\* a body in Charles' form {"text": "<json>"}
TextBody(v) == JDict(<< <<"text", JStr(JsonText(v))>> >>)

EntryA1 ==
    MkEntry("GET", "/a", JInt(200), JNull,
            TextBody(JDict(<< <<"code", JInt(1)>>, <<"message", JStr("OK")>> >>)))

EntryA2 ==
    MkEntry("GET", "/a", JInt(200), JNull,
            TextBody(JDict(<< <<"code", JInt(2)>>, <<"message", JStr("OK")>> >>)))

EntryA3 ==
    MkEntry("GET", "/a", JInt(404), JStr("dadadadadad"),
            JStr(JsonText(JDict(<< <<"status", JStr("OK")>> >>))))

\* an entry in the flattened layout, without status
EntryB ==
    JDict(<< <<"method", JStr("GET")>>,
             <<"path", JStr("/b")>>,
             <<"request_headers", JDict(<< <<"a", JInt(1)>> >>)>>,
             <<"response_body", JDict(<< <<"status", JStr("FAIL")>> >>)>> >>)

\* an entry without any identity field
EntryEmpty == JDict(<<>>)

\* an entry that is not a mapping
EntryNotDict == JStr("oops")

\* an entry whose request is not a mapping
EntryBadRequest ==
    JDict(<< <<"method", JStr("GET")>>, <<"path", JStr("/a")>>, <<"request", JNull>> >>)

EntryPool == {EntryA1, EntryA2, EntryA3, EntryB, EntryEmpty, EntryNotDict, EntryBadRequest}

\* the basenames of the files: pairwise distinct, or two of them alike
\* (files of the same name in different directories)
LabelChoices(n) ==
    { SubSeq(<<"a.json", "b.json", "c.json">>, 1, n),
      SubSeq(<<"a.json", "a.json", "b.json">>, 1, n),
      SubSeq(<<"a.json", "b.json", "a.json">>, 1, n) }

\* file number i holding the given entries, under "data" or "entries"
FileOf(i, entries) ==
    JDict(<< <<(IF i = MaxFiles THEN "entries" ELSE "data"), JList(entries)>> >>)

\* the entries es dealt to n files, the first cuts[i] of them to files 1..i
Deal(es, n, cuts) ==
    [i \in 1..n |->
        FileOf(i, SubSeq(es, (IF i = 1 THEN 0 ELSE cuts[i - 1]) + 1,
                             IF i = n THEN Len(es) ELSE cuts[i]))]

\* the ways to cut m entries into n files: cuts[i] of them go to files 1..i
Cuts(n, m) == {c \in [1..(n - 1) -> 0..m] : \A i \in 1..(n - 2) : c[i] <= c[i + 1]}

\* the state compare_api_structures is in before it folds the first file
StartOn(files) ==
    /\ files_data = files
    /\ file_names \in LabelChoices(Len(files))
    /\ file_paths = [i \in 1..Len(files) |-> <<ToString(i), file_names[i]>>]
    /\ fs = [NoFiles(TRUE) EXCEPT !.opened = file_paths]
    /\ pc = "map"
    /\ idx = 1
    /\ entry_idx = 1
    /\ endpoint_mapping = NoEndpoints
    /\ comparison_results = NoResults
    /\ summary = NoSummaryYet
    /\ CmpIdle

\* every way to hold at most MaxEntries entries of the pool in two or three files
Init ==
    \E n \in MinFiles..MaxFiles, m \in 0..MaxEntries :
        \E es \in [1..m -> EntryPool], cuts \in Cuts(n, m) :
            StartOn(Deal(es, n, cuts))

Spec == Init /\ [][Next]_vars

(***************************************************************************)
(* The files the key resolution is checked on: one entry with every        *)
(* combination of identity fields in the first file, and a second file     *)
(* that is empty, holds a well-formed entry or holds a malformed one.      *)
(***************************************************************************)
\* the dict of the pairs whose value is not "absent"
Present(pairs) == SelectSeq(pairs, LAMBDA p : p[2] # "absent")

StrDict(pairs) ==
    LET ps == Present(pairs)
    IN  JDict([i \in 1..Len(ps) |-> <<ps[i][1], JStr(ps[i][2])>>])

KeyRequests ==
    { StrDict(<< <<"method", m>>, <<"query", q>>, <<"queryString", qs>> >>) :
        m \in {"absent", "POST"},
        q \in {"absent", "", "x=1"},
        qs \in {"absent", "", "y=2"} }

KeyEntries ==
    { LET base == StrDict(<< <<"method", m>>, <<":path", fp>>, <<"path", p>> >>)
      IN  IF r = JNull THEN base ELSE JDict(Append(base.d, <<"request", r>>)) :
        m \in {"absent", "GET"},
        fp \in {"absent", "", "/p?z=3"},
        p \in {"absent", "/a"},
        r \in KeyRequests \cup {JNull} }

KeyInputs ==
    { << FileOf(1, <<e>>), FileOf(2, rest) >> :
        e \in KeyEntries,
        rest \in {<<>>, <<EntryA1>>, <<EntryNotDict>>} }

InitKey == \E files \in KeyInputs : StartOn(files)

SpecKey == InitKey /\ [][Next]_vars

(***************************************************************************)
(* The files the identity of endpoints is checked on: two entries whose    *)
(* methods and paths are alike, differ by case, by a trailing slash or by  *)
(* where a colon stands, in one file or in two.                            *)
(***************************************************************************)
IdentEntries ==
    { StrDict(<< <<"method", m>>, <<":path", fp>>, <<"path", p>> >>) :
        m \in {"GET", "get", "GET:"},
        fp \in {"absent", "/a"},
        p \in {"/a", "/A", "/a/", ":/a"} }

IdentInputs ==
    UNION { { << FileOf(1, <<e1>>), FileOf(2, <<e2>>) >>,
              << FileOf(1, <<e1, e2>>), FileOf(2, <<>>) >> } :
            e1 \in IdentEntries, e2 \in IdentEntries \cup {EntryNotDict} }

InitIdent == \E files \in IdentInputs : StartOn(files)

SpecIdent == InitIdent /\ [][Next]_vars

(***************************************************************************)
(* The files the comparison levels are checked on: one entry a file, the   *)
(* entries alike but for their cookies and query parameters.               *)
(***************************************************************************)
\* EntryA1 with the given request cookies and query parameters
EntryWith(cookies, query_params) ==
    JDict(<< <<"method", JStr("GET")>>,
             <<"path", JStr("/a")>>,
             <<"status", JInt(200)>>,
             <<"request", JDict(<< <<"headers", JDict(<<>>)>>,
                                   <<"body", JNull>>,
                                   <<"cookies", JList(cookies)>>,
                                   <<"query_params", JList(query_params)>> >>)>>,
             <<"response", Item(EntryA1, "response")>> >>)

LevelEntries ==
    { EntryWith(cookies, query_params) :
        cookies \in {<<>>, <<JStr("sid=1")>>, <<JStr("sid=2")>>},
        query_params \in {<<>>, <<JStr("p=1")>>} }

\* what a file holds: one of the entries, nothing, or an entry that is no mapping
LevelFiles == {<<e>> : e \in LevelEntries \cup {EntryNotDict}} \cup {<<>>}

InitLevel ==
    \E n \in MinFiles..MaxFiles :
        \E held \in [1..n -> LevelFiles] :
            StartOn([i \in 1..n |-> FileOf(i, held[i])])

SpecLevel == InitLevel /\ [][Next]_vars

(***************************************************************************)
(* The files the handling of response bodies is checked on: entries of one *)
(* endpoint whose response body is a text that is no JSON, a mapping with  *)
(* such a text, or JSON; and an entry of another endpoint.                 *)
(***************************************************************************)
BodyPool ==
    { JStr("oops"),
      JDict(<< <<"text", JStr("oops")>> >>),
      JStr(JsonText(JDict(<< <<"status", JStr("OK")>> >>))),
      TextBody(JDict(<< <<"code", JInt(1)>>, <<"message", JStr("OK")>> >>)) }

BodyEntries == { MkEntry("GET", "/a", JInt(200), JNull, body) : body \in BodyPool }

\* what a file holds: up to two entries, the second possibly of another
\* endpoint or no mapping
BodyFiles ==
    {<<>>} \cup {<<e>> : e \in BodyEntries}
    \cup {<<e1, e2>> : e1 \in BodyEntries, e2 \in {EntryB, EntryNotDict} \cup BodyEntries}

InitBody ==
    \E n \in MinFiles..MaxFiles :
        \E held \in [1..n -> BodyFiles] :
            /\ Len(held[1]) + Len(held[n]) <= 3
            /\ n = MaxFiles => Len(held[2]) <= 1
            /\ StartOn([i \in 1..n |-> FileOf(i, held[i])])

SpecBody == InitBody /\ [][Next]_vars

(***************************************************************************)
(* compare_api_structures from its first statement: the checks on the      *)
(* paths, the output directory and the loading of the files.  A path is    *)
(* the list of its components.                                             *)
(***************************************************************************)
\* most paths compare_api_structures is called with
MaxPaths == 4

\* os.path.basename(file_path)
Basename(file_path) == file_path[Len(file_path)]

\* file_path.endswith('.json')
EndsWithJson(file_path) ==
    LET name == Basename(file_path)
    IN  Len(name) >= 5 /\ SubSeq(name, Len(name) - 4, Len(name)) = ".json"

\* the paths of the calls, and what the file system holds under them
PathPool ==
    { <<"x", "a.json">>, <<"y", "a.json">>, <<"x", "b.json">>, <<"x", "empty.json">>,
      <<"x", "oops.json">>, <<"x", "notes.txt">>, <<"x", "gone.json">>,
      <<"x", "bad.json">> }

\* os.path.exists(file_path)
Exists(file_path) == file_path # <<"x", "gone.json">>

\* json.load(f) returns a value; it raises on the text of bad.json
LoadsAsJson(file_path) == file_path # <<"x", "bad.json">>

\* json.load(f) of the file at file_path
Content(file_path) ==
    CASE file_path = <<"x", "a.json">> -> FileOf(1, <<EntryA1>>)
      [] file_path = <<"y", "a.json">> -> FileOf(1, <<EntryA2>>)
      [] file_path = <<"x", "b.json">> -> FileOf(MaxFiles, <<EntryA1, EntryB>>)
      [] file_path = <<"x", "oops.json">> -> FileOf(1, <<EntryNotDict>>)
      [] OTHER -> FileOf(1, <<>>)

\* the too-many test answering no to every list of paths
TooMany_Never(paths) == FALSE

\* len(file_paths) < 2
TooFew(paths) == Len(paths) < MinFiles

\* len(file_paths) > 3
TooMany(paths) == Len(paths) > MaxFiles

\* return {"error": ...} before the try block
ReturnError(message) ==
    /\ pc' = "error"
    /\ summary' = [error |-> message]

\* the two tests on the number of paths (1292-1296)
Validate ==
    /\ pc = "start"
    /\ IF TooFew(file_paths)
       THEN ReturnError("At least two files are required for comparison")
       ELSE IF TooMany(file_paths)
       THEN ReturnError("Maximum of three files can be compared at once")
       ELSE pc' = "check" /\ UNCHANGED summary
    /\ UNCHANGED <<file_paths, fs, files_data, file_names, idx, entry_idx,
                   endpoint_mapping, comparison_results>>
    /\ UNCHANGED cmpVars
    /\ UNCHANGED logVars

\* for file_path in file_paths: exists? ends with .json? (1299-1304)
CheckFiles ==
    /\ pc = "check"
    /\ LET bad == {i \in 1..Len(file_paths) :
                      ~Exists(file_paths[i]) \/ ~EndsWithJson(file_paths[i])}
           first == CHOOSE i \in bad : \A j \in bad : i <= j
       IN  IF bad = {} THEN pc' = "mkdir" /\ UNCHANGED summary
           ELSE IF ~Exists(file_paths[first]) THEN ReturnError("File not found")
           ELSE ReturnError("File must be a JSON file")
    /\ UNCHANGED <<file_paths, fs, files_data, file_names, idx, entry_idx,
                   endpoint_mapping, comparison_results>>
    /\ UNCHANGED cmpVars
    /\ UNCHANGED logVars

\* os.makedirs(output_dir) when the directory is missing; it succeeds or
\* raises (1307-1311)
MakeDir ==
    /\ pc = "mkdir"
    /\ IF fs.out_dir THEN pc' = "load" /\ UNCHANGED <<fs, summary>>
       ELSE \/ pc' = "load" /\ fs' = [fs EXCEPT !.out_dir = TRUE] /\ UNCHANGED summary
            \/ ReturnError("Error creating output directory") /\ UNCHANGED fs
    /\ UNCHANGED <<file_paths, files_data, file_names, idx, entry_idx,
                   endpoint_mapping, comparison_results>>
    /\ UNCHANGED cmpVars
    /\ UNCHANGED logVars

\* the loop that opens and loads the files (1315-1322); json.load raising
\* ends it, and compare_api_structures catches that (1362-1363)
Load ==
    /\ pc = "load"
    /\ LET bad == {i \in 1..Len(file_paths) : ~LoadsAsJson(file_paths[i])}
           first == CHOOSE i \in bad : \A j \in bad : i <= j
       IN  IF bad = {}
           THEN /\ files_data' = [i \in 1..Len(file_paths) |-> Content(file_paths[i])]
                /\ file_names' = [i \in 1..Len(file_paths) |-> Basename(file_paths[i])]
                /\ fs' = [fs EXCEPT !.opened = file_paths]
                /\ pc' = "map"
                /\ idx' = 1
                /\ entry_idx' = 1
                /\ UNCHANGED summary
           ELSE /\ fs' = [fs EXCEPT !.opened = SubSeq(file_paths, 1, first)]
                /\ ReturnError("Error comparing API structures")
                /\ UNCHANGED <<files_data, file_names, idx, entry_idx>>
    /\ UNCHANGED <<file_paths, endpoint_mapping, comparison_results>>
    /\ UNCHANGED cmpVars
    /\ UNCHANGED logVars

\* a call with at most MaxPaths paths of the pool
InitCall ==
    /\ \E n \in 0..MaxPaths : file_paths \in [1..n -> PathPool]
    /\ \E out_dir \in BOOLEAN : fs = NoFiles(out_dir)
    /\ files_data = <<>>
    /\ file_names = <<>>
    /\ pc = "start"
    /\ idx = 0
    /\ entry_idx = 0
    /\ endpoint_mapping = NoEndpoints
    /\ comparison_results = NoResults
    /\ summary = NoSummaryYet
    /\ CmpIdle

NextCall == Validate \/ CheckFiles \/ MakeDir \/ Load \/ Next

SpecCall == InitCall /\ [][NextCall]_vars

(***************************************************************************)
(* Properties of aggregation, comparison and the report.                   *)
(***************************************************************************)
Folded == pc \in {"analyze", "report", "done"}

\* the entries of file number i
FileEntries(i) == EntriesOf(files_data[i]).l

\* the entries of file number i whose endpoint key is k
EntriesWithKey(i, k) ==
    {j \in 1..Len(FileEntries(i)) : EndpointKeyOf(FileEntries(i)[j]) = k}

\* the files that hold an entry of endpoint k
FilesWith(k) == {i \in 1..Len(files_data) : EntriesWithKey(i, k) # {}}

\* the endpoint keys of all entries
InputKeys ==
    UNION { {EndpointKeyOf(FileEntries(i)[j]) : j \in 1..Len(FileEntries(i))} :
            i \in 1..Len(files_data) }

\* the snapshots the sources i and j hold of endpoint k
Snapshots(i, k) == {InstanceData(FileEntries(i)[j], j) : j \in EntriesWithKey(i, k)}

\* some pairwise comparison of endpoint k recorded a difference
RecordedDifference(k) ==
    \E ck \in DOMAIN comparison_results[k].response_body_differences :
        comparison_results[k].response_body_differences[ck].differences # <<>>

\* two sources of endpoint k hold different response statuses
StatusMismatch(k) ==
    \E i, j \in FilesWith(k) :
        /\ file_names[i] # file_names[j]
        /\ \E x \in Snapshots(i, k), y \in Snapshots(j, k) : x.status # y.status

\* C1: has_changes of an endpoint of the output is true if and only if some
\* pairwise comparison recorded a difference or two sources' response
\* statuses differ (so it is false when all sources hold identical entries).
C1_HasChangesIffDifference ==
    pc = "done" =>
        \A k \in DOMAIN comparison_results :
            comparison_results[k].has_changes <=> (RecordedDifference(k) \/ StatusMismatch(k))

\* x and y differ structurally in request headers, request body, response
\* headers or response body
SnapshotsDiffer(x, y) ==
    \E part \in {"request", "response"}, field \in {"headers", "body"} :
        _deep_compare_structures(Item(x[part], field), Item(y[part], field), <<>>, TRUE) # <<>>

\* the diff entries stored for the pair of sources a, b of endpoint k
PairDiffEntries(k, a, b) ==
    LET rbd == comparison_results[k].response_body_differences
    IN  UNION { SeqRange(rbd[ck].differences) :
                ck \in DOMAIN rbd \cap {a \o "_vs_" \o b, b \o "_vs_" \o a} }

\* C2: for every endpoint and every pair of sources it is present in, the
\* value comparator is applied to the two sources' headers and bodies:
\* whenever they differ structurally, the entry stored for the pair holds a
\* non-empty list of diff entries.
C2_PairDiffRecorded ==
    pc = "done" =>
        \A k \in DOMAIN comparison_results :
            \A i, j \in FilesWith(k) :
                ( /\ file_names[i] # file_names[j]
                  /\ \A x \in Snapshots(i, k), y \in Snapshots(j, k) : SnapshotsDiffer(x, y) )
                => PairDiffEntries(k, file_names[i], file_names[j]) # {}

\* the sources (labels) that hold an entry of endpoint k
SourcesWith(k) == {file_names[i] : i \in FilesWith(k)}

\* C3: an endpoint present in fewer than two sources never appears in the
\* output of _analyze_api_differences.
C3_SingleSourceAbsent ==
    pc \in {"report", "done"} =>
        \A k \in DOMAIN comparison_results : Cardinality(SourcesWith(k)) >= 2

\* an endpoint of one source was left out while another endpoint was reported
C3_Witness ==
    /\ pc = "done"
    /\ DOMAIN comparison_results # {}
    /\ \E k \in DOMAIN endpoint_mapping :
          Cardinality(SourcesWith(k)) = 1 /\ k \notin DOMAIN comparison_results

\* C4: the total endpoint count of the report equals the number of entries
\* of the comparison results.
C4_TotalIsResultCount ==
    pc = "done" => summary.total_endpoints = Cardinality(DOMAIN comparison_results)

\* an entry that is not a mapping, holds a request or response that is not a
\* mapping, or lacks every identity field
Malformed(e) ==
    \/ ~IsDict(e)
    \/ /\ IsDict(e)
       /\ \/ HasKey(e, "request") /\ ~IsDict(Item(e, "request"))
          \/ HasKey(e, "response") /\ ~IsDict(Item(e, "response"))
          \/ KeySet(e) \cap {"method", ":path", "path", "request"} = {}

\* the sum of the values of a function of finite domain
RECURSIVE SumOf(_)
SumOf(f) ==
    IF DOMAIN f = {} THEN 0
    ELSE LET x == CHOOSE y \in DOMAIN f : TRUE
         IN  f[x] + SumOf([z \in DOMAIN f \ {x} |-> f[z]])

NumMalformed ==
    SumOf([i \in 1..Len(files_data) |->
              Cardinality({j \in 1..Len(FileEntries(i)) : Malformed(FileEntries(i)[j])})])

NumEntries == SumOf([i \in 1..Len(files_data) |-> Len(FileEntries(i))])

\* the entries counted under endpoint k
CountedUnder(k) ==
    IF k \in DOMAIN endpoint_mapping
    THEN SumOf(endpoint_mapping[k].instance_counts)
    ELSE 0

\* the entries counted under all endpoints
CountedInAll == SumOf([k \in DOMAIN endpoint_mapping |-> CountedUnder(k)])

\* C8: aggregation never raises because of a single entry: a malformed entry
\* is counted under "UNKNOWN:UNKNOWN" and all other entries are aggregated.
C8_BadEntryAbsorbed ==
    /\ pc # "error"
    /\ Folded =>
          /\ CountedUnder("UNKNOWN:UNKNOWN") >= NumMalformed
          /\ CountedInAll = NumEntries

\* the labels of the sources
Labels == SeqRange(file_names)

\* the number of entries of the source labelled s whose endpoint key is k
EntriesOfSource(s, k) ==
    SumOf([i \in {j \in 1..Len(files_data) : file_names[j] = s} |->
              Cardinality(EntriesWithKey(i, k))])

\* C9: after aggregation, instance_counts[s] of endpoint k is defined exactly
\* when s is in present_in of k, and equals the number of entries of s whose
\* key is k; every entry is counted.
C9_InstanceCounts ==
    Folded =>
        /\ \A k \in DOMAIN endpoint_mapping, s \in Labels :
              /\ s \in DOMAIN endpoint_mapping[k].instance_counts
                    <=> s \in SeqRange(endpoint_mapping[k].present_in)
              /\ s \in DOMAIN endpoint_mapping[k].instance_counts
                    => endpoint_mapping[k].instance_counts[s] = EntriesOfSource(s, k)
        /\ \A k \in InputKeys, s \in Labels :
              EntriesOfSource(s, k) > 0
                 => /\ k \in DOMAIN endpoint_mapping
                    /\ s \in DOMAIN endpoint_mapping[k].instance_counts
        /\ CountedInAll = NumEntries

\* one source holds two entries of an endpoint and another source holds one
C9_Witness ==
    /\ Folded
    /\ \E k \in DOMAIN endpoint_mapping :
          \E s, u \in DOMAIN endpoint_mapping[k].instance_counts :
              /\ endpoint_mapping[k].instance_counts[s] = 2
              /\ endpoint_mapping[k].instance_counts[u] = 1

\* the text of field f of dict e, or the default when the field is absent
TextOf(e, f, default) == IF HasKey(e, f) THEN Item(e, f).s ELSE default

\* the method named by the claim
ClaimedMethod(e) ==
    IF HasKey(e, "method") THEN Item(e, "method").s
    ELSE IF HasKey(e, "request") THEN TextOf(Item(e, "request"), "method", "UNKNOWN")
    ELSE "UNKNOWN"

\* the claim as made: "?" plus request.query, otherwise plus
\* request.queryString, nothing when neither is present
ClaimedQuery(e) ==
    LET request == IF HasKey(e, "request") THEN Item(e, "request") ELSE JDict(<<>>)
    IN  IF HasKey(request, "query") THEN "?" \o Item(request, "query").s
        ELSE IF HasKey(request, "queryString") THEN "?" \o Item(request, "queryString").s
        ELSE ""

\* the claim as amended: nothing also when the chosen query is empty
AmendedQuery(e) ==
    LET request == IF HasKey(e, "request") THEN Item(e, "request") ELSE JDict(<<>>)
        chosen == IF HasKey(request, "query") THEN Item(request, "query").s
                  ELSE IF HasKey(request, "queryString") THEN Item(request, "queryString").s
                  ELSE ""
    IN  IF chosen = "" THEN "" ELSE "?" \o chosen

KeyWith(e, query) ==
    ClaimedMethod(e) \o ":" \o
        (IF TextOf(e, ":path", "") # "" THEN TextOf(e, ":path", "")
         ELSE TextOf(e, "path", "UNKNOWN") \o query)

\* the entry of the first file, whose identity fields vary
FirstEntry == FileEntries(1)[1]

\* C10 as claimed: the endpoint key is method ":" full path, the full path
\* being ":path" when present and non-empty, otherwise path (or "UNKNOWN")
\* followed by "?" plus request.query, otherwise request.queryString, and by
\* nothing when neither is present.
C10_KeyAsClaimed ==
    Folded => KeyWith(FirstEntry, ClaimedQuery(FirstEntry)) \in DOMAIN endpoint_mapping

\* C10 as amended: the query is request.query when the request has that field
\* and otherwise request.queryString, and "?" plus the query is appended only
\* when that query is non-empty.
C10_KeyAmended ==
    Folded =>
        LET k == KeyWith(FirstEntry, AmendedQuery(FirstEntry))
        IN  /\ k \in DOMAIN endpoint_mapping
            /\ "a.json" \in SeqRange(endpoint_mapping[k].present_in)
            /\ PyStr(endpoint_mapping[k].method) = ClaimedMethod(FirstEntry)
            /\ \A j \in DOMAIN endpoint_mapping :
                  "a.json" \in SeqRange(endpoint_mapping[j].present_in)
                     => j = k \/ file_names[2] = "a.json"

\* an entry with an empty query and a non-empty queryString has been folded
C10_Witness ==
    /\ pc = "done"
    /\ ~HasKey(FirstEntry, ":path")
    /\ HasKey(FirstEntry, "request")
    /\ TextOf(Item(FirstEntry, "request"), "query", "absent") = ""
    /\ TextOf(Item(FirstEntry, "request"), "queryString", "absent") = "y=2"
    /\ "GET:/a" \in DOMAIN endpoint_mapping

(***************************************************************************)
(* The values the comparators are applied to.                              *)
(***************************************************************************)
\* longest list compared
MaxLen == 3

CmpKeys == {"a", "status"}

\* the members of the compared dicts
CmpLeaves == {JNull, JBool(TRUE), JInt(1), JInt(2), JStr("OK"), JStr("FAIL")}

\* the members of the compared lists
CmpItems == {JInt(1), JInt(2)}

\* the sequences of pairwise distinct keys
KeySeqs ==
    {ks \in UNION {[1..n -> CmpKeys] : n \in 0..Cardinality(CmpKeys)} :
        \A i, j \in 1..Len(ks) : i # j => ks[i] # ks[j]}

FlatDicts ==
    UNION { {JDict([i \in 1..Len(ks) |-> <<ks[i], vs[i]>>]) :
                vs \in [1..Len(ks) -> CmpLeaves]} : ks \in KeySeqs }

FlatLists == UNION { {JList(s) : s \in [1..n -> CmpItems]} : n \in 0..MaxLen }

\* the containers nested one level down
Inner ==
    { JDict(<<>>), JDict(<< <<"a", JInt(1)>> >>), JDict(<< <<"a", JInt(2)>> >>),
      JDict(<< <<"status", JStr("OK")>> >>),
      JList(<<>>), JList(<<JInt(1)>>), JList(<<JInt(1), JInt(2)>>) }

Nested ==
    {JDict(<< <<"a", c>> >>) : c \in Inner} \cup {JList(<<c>>) : c \in Inner}

\* the strings compared at the top level: plain text and JSON texts
CmpStrings ==
    { JStr("x"), JStr("1"),
      JStr(JsonText(JDict(<< <<"status", JStr("OK")>> >>))),
      JStr(JsonText(JDict(<< <<"status", JStr("FAIL")>> >>))) }

\* a text longer than the length diff values are cut to
LongText == "012345678901234567890123456789012345678901234567890123456789012345678901234567890123456789012345678901234567890123456789"

\* the values whose text is longer than that length
CmpLong == { JStr(LongText), JDict(<< <<"a", JStr(LongText)>> >>) }

CmpValues == CmpLeaves \cup CmpStrings \cup FlatDicts \cup FlatLists \cup Nested \cup CmpLong

(***************************************************************************)
(* The comparators applied to a pair of values.                            *)
(***************************************************************************)
PipeIdle ==
    /\ file_paths = <<>>
    /\ fs = NoFiles(TRUE)
    /\ files_data = <<>>
    /\ file_names = <<>>
    /\ pc = "idle"
    /\ idx = 0
    /\ entry_idx = 0
    /\ endpoint_mapping = NoEndpoints
    /\ comparison_results = NoResults
    /\ summary = NoSummaryYet

InitCmp ==
    /\ PipeIdle
    /\ LogIdle
    /\ obj1 \in CmpValues
    /\ obj2 \in CmpValues
    /\ applied = {}
    /\ diffs = <<>>
    /\ pdiffs = NoDifferences
    /\ calls = <<>>

\* differences = _deep_compare_structures(obj1, obj2, [], include_values=True)
DeepCompare ==
    /\ "deep" \notin applied
    /\ diffs' = _deep_compare_structures(obj1, obj2, <<>>, TRUE)
    /\ applied' = applied \cup {"deep"}
    /\ UNCHANGED <<obj1, obj2, pdiffs, calls>>
    /\ UNCHANGED pipeVars
    /\ UNCHANGED logVars

\* differences = _compare_parameters(obj1, obj2, "file1", "file2")
CompareParameters ==
    /\ "params" \notin applied
    /\ pdiffs' = _compare_parameters(obj1, obj2, <<>>)
    /\ applied' = applied \cup {"params"}
    /\ UNCHANGED <<obj1, obj2, diffs, calls>>
    /\ UNCHANGED pipeVars
    /\ UNCHANGED logVars

NextCmp == DeepCompare \/ CompareParameters

SpecCmp == InitCmp /\ [][NextCmp]_vars

(***************************************************************************)
(* _deep_compare_structures run call by call.  calls holds what is left to *)
(* be done, in the order the code does it: a call still to be entered, or  *)
(* a difference still to be appended.  A nested call's list is extended    *)
(* onto the caller's at the place of the call (1811, 1849), so appending   *)
(* its differences in place gives the caller's list.                       *)
(***************************************************************************)
\* the call _deep_compare_structures(o1, o2, path, include_values)
Pending(o1, o2, path, include_values) ==
    [call |-> TRUE, o1 |-> o1, o2 |-> o2, path |-> path,
     include_values |-> include_values]

\* differences.append(d), for each d of ds in turn
Appends(ds) == [i \in 1..Len(ds) |-> [call |-> FALSE, difference |-> ds[i]]]

\* a nested call made on the caller's own arguments
NestedCall_OnWhole(o1, o2, v1, v2, path, include_values) ==
    Pending(o1, o2, path, include_values)

\* the nested call of a call on o1 and o2, made on their members v1 and v2
\* (1810, 1848)
NestedCall(o1, o2, v1, v2, path, include_values) ==
    Pending(v1, v2, path, include_values)

RECURSIVE KeySteps(_, _, _, _, _)
RECURSIVE ItemSteps(_, _, _, _, _)

\* for key in obj1: ... (keys i.. of obj1)
KeySteps(o1, o2, path, include_values, i) ==
    IF i > Len(o1.d) THEN <<>>
    ELSE
        LET key == o1.d[i][1]
            v1 == o1.d[i][2]
            here ==
                IF ~HasKey(o2, key)
                THEN Appends(<< [path |-> PathJoin(Append(path, key)),
                                 difference |-> "field_missing_in_second",
                                 value |-> ValueIf(include_values, v1)] >>)
                ELSE IF ~IsContainer(v1)
                THEN IF MemberDiffers(v1, Item(o2, key))
                     THEN Appends(<< [path |-> PathJoin(Append(path, key)),
                                      difference |-> "value_changed",
                                      value1 |-> Str100(v1),
                                      value2 |-> Str100(Item(o2, key))] >>)
                     ELSE <<>>
                ELSE << NestedCall(o1, o2, v1, Item(o2, key), Append(path, key),
                                   include_values) >>
        IN  here \o KeySteps(o1, o2, path, include_values, i + 1)

\* for i in range(max_items): ... (items i.. below the shorter length)
ItemSteps(o1, o2, path, include_values, i) ==
    LET max_items == IF Len(o1.l) < Len(o2.l) THEN Len(o1.l) ELSE Len(o2.l)
    IN  IF i > max_items THEN <<>>
        ELSE
            LET item_path == Append(path, IndexName(i))
                here ==
                    IF ~IsContainer(o1.l[i])
                    THEN IF MemberDiffers(o1.l[i], o2.l[i])
                         THEN Appends(<< [path |-> PathJoin(item_path),
                                          difference |-> "array_item_changed",
                                          value1 |-> Str100(o1.l[i]),
                                          value2 |-> Str100(o2.l[i])] >>)
                         ELSE <<>>
                    ELSE << NestedCall(o1, o2, o1.l[i], o2.l[i], item_path,
                                       include_values) >>
            IN  here \o ItemSteps(o1, o2, path, include_values, i + 1)

\* the body of the call c: its appends and its nested calls, in order
Body(c) ==
    IF IsDict(c.o1) /\ IsDict(c.o2)
    THEN KeySteps(c.o1, c.o2, c.path, c.include_values, 1)
         \o Appends(DictKeysOfSecond(c.o1, c.o2, c.path, c.include_values, 1))
    ELSE IF IsList(c.o1) /\ IsList(c.o2)
    THEN Appends(IF Len(c.o1.l) # Len(c.o2.l)
                 THEN << [path |-> PathOrRoot(c.path),
                          difference |-> "array_length_changed",
                          length1 |-> Len(c.o1.l),
                          length2 |-> Len(c.o2.l)] >>
                 ELSE <<>>)
         \o ItemSteps(c.o1, c.o2, c.path, c.include_values, 1)
         \o Appends(ExtraItems(c.o1, c.o2, c.path, c.include_values))
    ELSE Appends(_deep_compare_structures(c.o1, c.o2, c.path, c.include_values))

\* _deep_compare_structures(obj1, obj2, [], include_values=True) is called
CallCompare ==
    /\ applied = {}
    /\ calls = <<>>
    /\ calls' = << Pending(obj1, obj2, <<>>, TRUE) >>
    /\ applied' = {"called"}
    /\ UNCHANGED <<obj1, obj2, diffs, pdiffs>>
    /\ UNCHANGED pipeVars
    /\ UNCHANGED logVars

\* the next call is entered: its body is what is done next
EnterCall ==
    /\ calls # <<>>
    /\ Head(calls).call
    /\ calls' = Body(Head(calls)) \o Tail(calls)
    /\ UNCHANGED <<obj1, obj2, applied, diffs, pdiffs>>
    /\ UNCHANGED pipeVars
    /\ UNCHANGED logVars

\* differences.append({...})
AppendDifference ==
    /\ calls # <<>>
    /\ ~Head(calls).call
    /\ diffs' = Append(diffs, Head(calls).difference)
    /\ calls' = Tail(calls)
    /\ UNCHANGED <<obj1, obj2, applied, pdiffs>>
    /\ UNCHANGED pipeVars
    /\ UNCHANGED logVars

\* return differences, from the outermost call
ReturnDifferences ==
    /\ "called" \in applied
    /\ "deep" \notin applied
    /\ calls = <<>>
    /\ applied' = applied \cup {"deep"}
    /\ UNCHANGED <<obj1, obj2, diffs, pdiffs, calls>>
    /\ UNCHANGED pipeVars
    /\ UNCHANGED logVars

NextRec == CallCompare \/ EnterCall \/ AppendDifference \/ ReturnDifferences

SpecRec == InitCmp /\ [][NextRec]_vars

(***************************************************************************)
(* Properties of the value comparators (checked under SpecCmp).            *)
(***************************************************************************)
\* the set of entries of a list of differences
Entries(ds) == {ds[i] : i \in 1..Len(ds)}

\* a difference entry seen from the other side: first and second exchanged
Mirror(e) ==
    CASE e.difference = "field_missing_in_second" ->
            [path |-> e.path, difference |-> "field_missing_in_first", value |-> e.value]
      [] e.difference = "field_missing_in_first" ->
            [path |-> e.path, difference |-> "field_missing_in_second", value |-> e.value]
      [] e.difference = "extra_item_in_first" ->
            [path |-> e.path, difference |-> "extra_item_in_second", value |-> e.value]
      [] e.difference = "extra_item_in_second" ->
            [path |-> e.path, difference |-> "extra_item_in_first", value |-> e.value]
      [] e.difference = "array_length_changed" ->
            [path |-> e.path, difference |-> e.difference,
             length1 |-> e.length2, length2 |-> e.length1]
      [] e.difference = "type_changed" ->
            [path |-> e.path, difference |-> e.difference,
             type1 |-> e.type2, type2 |-> e.type1,
             value1 |-> e.value2, value2 |-> e.value1]
      [] OTHER ->
            [path |-> e.path, difference |-> e.difference,
             value1 |-> e.value2, value2 |-> e.value1]

\* C5: compare(a, b) and compare(b, a) are mirror images as sets of diff
\* entries: missing/extra entries change sides at the same path, every other
\* entry keeps its path and kind with value1/value2 exchanged.
C5_MirrorImage ==
    "deep" \in applied =>
        {Mirror(e) : e \in Entries(diffs)}
            = Entries(_deep_compare_structures(obj2, obj1, <<>>, TRUE))

\* deep equality of JSON values: same type, same members
RECURSIVE DeepEqual(_, _)
DeepEqual(x, y) ==
    /\ x.t = y.t
    /\ CASE IsDict(x) ->
                /\ KeySet(x) = KeySet(y)
                /\ \A k \in KeySet(x) : DeepEqual(Item(x, k), Item(y, k))
         [] IsList(x) ->
                /\ Len(x.l) = Len(y.l)
                /\ \A i \in 1..Len(x.l) : DeepEqual(x.l[i], y.l[i])
         [] OTHER -> x = y

\* C6: for deeply equal values a and b, compare(a, b, []) returns the empty
\* list of diff entries.
C6_EqualGivesEmpty ==
    ("deep" \in applied /\ DeepEqual(obj1, obj2)) => diffs = <<>>

\* two equal mappings with their keys in different orders have been compared
C6_Witness ==
    /\ "deep" \in applied
    /\ IsDict(obj1)
    /\ Len(obj1.d) = 2
    /\ obj1 # obj2
    /\ DeepEqual(obj1, obj2)

\* v is a string holding a JSON-encoded mapping
HoldsJsonDict(v) == IsStr(v) /\ JsonParses(v.s) /\ IsDict(JsonLoads(v.s))

\* the mapping a compared body stands for
Decoded(v) == IF IsStr(v) THEN JsonLoads(v.s) ELSE v

\* one body is a JSON string of a mapping, the other a JSON string of a mapping
\* or a native mapping, and the two mappings differ in the scalar field status
C7_Case ==
    /\ HoldsJsonDict(obj1)
    /\ HoldsJsonDict(obj2) \/ IsDict(obj2)
    /\ KeySet(Decoded(obj1)) = {"status"}
    /\ KeySet(Decoded(obj2)) = {"status"}
    /\ ~IsContainer(Item(Decoded(obj2), "status"))
    /\ ~PyEq(Item(Decoded(obj1), "status"), Item(Decoded(obj2), "status"))

\* C7: a JSON-encoded mapping compared with a JSON string or a native mapping
\* is decoded and diffed recursively: the differing field is reported as
\* changed at its own path (status), and neither a type change nor an entry
\* at the root is reported.
C7_DecodesAndRecurses ==
    C7_Case =>
        /\ "deep" \in applied =>
              /\ \E e \in Entries(diffs) :
                    e.path = "status" /\ e.difference = "value_changed"
              /\ \A e \in Entries(diffs) :
                    e.difference # "type_changed" /\ e.path # "root"
        /\ "params" \in applied =>
              /\ "status" \in DOMAIN pdiffs
              /\ \A p \in DOMAIN pdiffs :
                    pdiffs[p].type # "type_mismatch" /\ p # "root"

(***************************************************************************)
(* Properties of the call (checked under SpecCall).                        *)
(***************************************************************************)
\* the number of paths is one compare_api_structures accepts
CountAccepted == Len(file_paths) \in MinFiles..MaxFiles

\* C13: called with fewer than 2 or more than 3 paths, compare_api_structures
\* returns a result with an "error" field, and does so before it reads an
\* input file, makes the output directory or writes a report.
C13_BadCountReturnsError ==
    [][(pc = "start" /\ ~CountAccepted)
          => (pc' = "error" /\ "error" \in DOMAIN summary' /\ fs' = fs)]_vars

\* a call with four paths and no output directory has returned
C13_Witness ==
    /\ pc = "error"
    /\ Len(file_paths) > MaxFiles
    /\ fs = NoFiles(FALSE)

\* the positions of compare_api_structures before it returns
Running == {"start", "check", "mkdir", "load", "map", "analyze", "report"}

\* what compare_api_structures has returned: a success result with the
\* report written, or an error message, nothing else, and no report written
ReturnedWell ==
    /\ pc \in Running \cup {"done", "error"}
    /\ pc = "error" => DOMAIN summary = {"error"} /\ fs.reports = 0
    /\ pc = "done" =>
          /\ DOMAIN summary = {"status", "total_endpoints", "endpoints_with_changes",
                               "files_compared"}
          /\ summary.status = "success"
          /\ summary.files_compared = file_names
          /\ fs.reports = 1

\* the statement compare_api_structures is at can be executed: the loops of
\* the aggregation are at a file and an entry that exist
CanGoOn ==
    pc = "map" =>
        /\ idx \in 1..Len(files_data)
        /\ Truthy(EntriesOf(files_data[idx])) => entry_idx \in 1..Len(CurrentEntries)

\* a bound on the statements still to be executed: the position in
\* compare_api_structures first, the position in the two loops second
Remaining ==
    LET rank == CASE pc = "start" -> 8 [] pc = "check" -> 7 [] pc = "mkdir" -> 6
                  [] pc = "load" -> 5 [] pc = "map" -> 4 [] pc = "analyze" -> 3
                  [] pc = "report" -> 2 [] pc = "done" -> 1 [] OTHER -> 0
        inLoops == IF pc = "map" THEN (MaxEntries + 2) * idx + entry_idx ELSE 0
    IN  rank * (MaxEntries + 2) * (MaxPaths + 2) - inLoops

AllEntries ==
    UNION { {FileEntries(i)[j] : j \in 1..Len(FileEntries(i))} : i \in 1..Len(files_data) }

\* the (method, full path) pairs of the entries
Identities == {<<MethodOf(e), FullPathOf(e)>> : e \in AllEntries}

\* C11: two entries are aggregated into the same endpoint record only if
\* they have the same method and the same full path, compared as strings:
\* entries that differ in method or in full path (be it by case or by a
\* trailing slash) are in distinct records, so there is one record for each
\* (method, full path) among the entries, holding that method and path.
C11_DistinctIdentitiesApart ==
    Folded =>
        /\ Cardinality(DOMAIN endpoint_mapping) = Cardinality(Identities)
        /\ \A id \in Identities :
              \E k \in DOMAIN endpoint_mapping :
                  endpoint_mapping[k].method = id[1] /\ endpoint_mapping[k].path = id[2]

\* the sources have pairwise distinct labels
DistinctLabels == Cardinality(Labels) = Len(file_names)

\* the positions of the pairwise entries among the differences of endpoint k
PairEntriesOf(k) ==
    {i \in 1..Len(endpoint_mapping[k].differences) : endpoint_mapping[k].differences[i].pair}

\* the positions of the pairwise entries of endpoint k for the sources x and y
EntriesOfPair(k, x, y) ==
    {i \in PairEntriesOf(k) :
        endpoint_mapping[k].differences[i].key \in {x \o "_vs_" \o y, y \o "_vs_" \o x}}

DifferInCookiesOnly(x, y) ==
    /\ x.status = y.status
    /\ x.response = y.response
    /\ \A f \in {"headers", "body"} : Item(x.request, f) = Item(y.request, f)
    /\ \E f \in {"cookies", "query_params"} : Item(x.request, f) # Item(y.request, f)

\* two sources of a compared endpoint differ in cookies or query parameters only
CookiesCase ==
    \E k \in DOMAIN comparison_results :
        \E i, j \in FilesWith(k) :
            /\ file_names[i] # file_names[j]
            /\ \E x \in Snapshots(i, k), y \in Snapshots(j, k) : DifferInCookiesOnly(x, y)

\* C15: the comparison level changes what is computed: comprehensive diffs
\* cookies and query parameters in addition to what detailed diffs, so for
\* two sources that differ only in cookies or query parameters the results
\* of _analyze_api_differences at comprehensive and at detailed differ.
C15_LevelChangesResult ==
    (pc \in {"report", "done"} /\ CookiesCase) =>
        _analyze_api_differences(endpoint_mapping, "comprehensive")
            # _analyze_api_differences(endpoint_mapping, "detailed")

(***************************************************************************)
(* Properties of the response summaries (checked under Spec).              *)
(***************************************************************************)
\* the JSON object a response body is: the mapping itself, or the mapping a
\* string encodes; JNull when it is neither
BodyObject(x) ==
    LET body == Item(x.response, "body")
    IN  IF IsDict(body) THEN body
        ELSE IF IsStr(body) /\ JsonParses(body.s) /\ IsDict(JsonLoads(body.s))
        THEN JsonLoads(body.s)
        ELSE JNull

\* the response body of snapshot x carries a status or a message
CarriesStatus(x) ==
    /\ IsDict(BodyObject(x))
    /\ \E f \in {"status", "statusCode", "code", "message", "statusMessage"} :
          HasKey(BodyObject(x), f) /\ Truthy(Item(BodyObject(x), f))

\* the sources the result of endpoint k holds a status/message pair for: in
\* its response_status_summary or in that of one of its pairwise entries
SummarizedSources(k) ==
    DOMAIN comparison_results[k].response_status_summary
    \cup UNION { {d.response_status_summary[i].file : i \in 1..Len(d.response_status_summary)} :
                 d \in {e \in SeqRange(comparison_results[k].differences) : e.pair} }

\* C16: for every source of a compared endpoint whose response body is a
\* JSON object carrying a truthy status, statusCode or code, or message or
\* statusMessage, the endpoint's result records the status/message pair for
\* that source in response_status_summary, the first source included.
C16_StatusSummarized ==
    pc \in {"report", "done"} =>
        \A k \in DOMAIN comparison_results :
            \A i \in FilesWith(k) :
                (\A x \in Snapshots(i, k) : CarriesStatus(x))
                    => file_names[i] \in SummarizedSources(k)

(***************************************************************************)
(* Properties of the comparison of lists (checked under SpecCmp).          *)
(***************************************************************************)
\* list x is a strict prefix of list y
StrictPrefix(x, y) ==
    /\ IsList(x) /\ IsList(y)
    /\ Len(x.l) < Len(y.l)
    /\ \A i \in 1..Len(x.l) : DeepEqual(x.l[i], y.l[i])

\* C17: comparing two lists of which one is a strict prefix of the other
\* ([1,2,3] and [1,2]) yields exactly one entry, array_length_changed with
\* both lengths: no entry for a common index and no extra_item_in_first or
\* extra_item_in_second entry for a surplus index.
C17_PrefixGivesLengthOnly ==
    ("deep" \in applied /\ (StrictPrefix(obj1, obj2) \/ StrictPrefix(obj2, obj1))) =>
        /\ Len(diffs) = 1
        /\ diffs[1].difference = "array_length_changed"
        /\ diffs[1].length1 = Len(obj1.l)
        /\ diffs[1].length2 = Len(obj2.l)

(***************************************************************************)
(* The input is left as it was (checked under Spec).                       *)
(***************************************************************************)
\* C18: aggregation followed by comparison never modifies the input: every
\* entry of every source, its nested request and response mappings included,
\* is after every step of the run what it was before it.
C18_InputUnchanged ==
    [][files_data' = files_data /\ file_names' = file_names]_vars

\* a run over entries with nested response mappings has gone through
\* aggregation and comparison and produced a result with a pairwise entry
C18_Witness ==
    /\ pc = "done"
    /\ \E e \in AllEntries : IsDict(e) /\ HasKey(e, "response") /\ IsDict(Item(e, "response"))
    /\ \E k \in DOMAIN comparison_results :
          \E d \in SeqRange(comparison_results[k].differences) : d.pair

(***************************************************************************)
(* Termination of the value comparator (checked under SpecRec).            *)
(***************************************************************************)
\* the members of a container
MembersOf(v) ==
    IF IsDict(v) THEN {v.d[i][2] : i \in 1..Len(v.d)}
    ELSE IF IsList(v) THEN SeqRange(v.l)
    ELSE {}

\* the number of values in v, v itself included
RECURSIVE ValueSize(_)
ValueSize(v) ==
    IF IsDict(v) THEN 1 + SumOf([i \in 1..Len(v.d) |-> ValueSize(v.d[i][2])])
    ELSE IF IsList(v) THEN 1 + SumOf([i \in 1..Len(v.l) |-> ValueSize(v.l[i])])
    ELSE 1

\* x is a strict sub-value of o: a member of it, and so smaller
StrictSubValue(x, o) == x \in MembersOf(o) /\ ValueSize(x) < ValueSize(o)

\* the work a pending step stands for: one for an append, and for a call
\* more than all the steps it can unfold into
StepWeight(c) ==
    IF c.call THEN 2 * (ValueSize(c.o1) + ValueSize(c.o2)) ELSE 1

\* the work left until the outermost call has returned
WorkLeft ==
    IF applied = {} THEN StepWeight(Pending(obj1, obj2, <<>>, TRUE)) + 2
    ELSE SumOf([i \in 1..Len(calls) |-> StepWeight(calls[i])])
         + (IF "deep" \in applied THEN 0 ELSE 1)

\* the comparator has not returned and has a step to take
HasStep == applied = {} \/ calls # <<>> \/ "called" \in applied

\* every nested call of the call being entered is on strict sub-values
NestedOnSubValues ==
    (calls # <<>> /\ Head(calls).call) =>
        \A c \in SeqRange(Body(Head(calls))) :
            c.call => /\ StrictSubValue(c.o1, Head(calls).o1)
                      /\ StrictSubValue(c.o2, Head(calls).o2)

\* C19: the value comparator terminates on every finite acyclic input: each
\* recursive call of _deep_compare_structures is on a strict sub-value of
\* its arguments, the comparator always has a step to take until it has
\* returned, every step lessens the work left, and what it returns is the
\* diff list of the two values.
C19_ComparatorTerminates ==
    /\ [](NestedOnSubValues /\ ("deep" \notin applied => HasStep))
    /\ []("deep" \in applied =>
            /\ calls = <<>>
            /\ diffs = _deep_compare_structures(obj1, obj2, <<>>, TRUE))
    /\ [][WorkLeft' < WorkLeft /\ WorkLeft' >= 0]_vars

\* the comparator has returned from a comparison that made a nested call and
\* found a difference inside it
C19_Witness ==
    /\ "deep" \in applied
    /\ "called" \in applied
    /\ \E c \in SeqRange(Body(Pending(obj1, obj2, <<>>, TRUE))) : c.call
    /\ diffs # <<>>

(***************************************************************************)
(* The fields of a result (checked under Spec).                            *)
(***************************************************************************)
\* the fields format_comparison_results reads from a result
\* (test_comparison.py 10-21)
FormatterReads == {"method", "host", "path", "instance_counts", "has_changes", "differences"}

\* C20: every per-endpoint result returned by _analyze_api_differences
\* carries all the fields the report formatter of the test script reads:
\* method, host, path, instance_counts, has_changes and differences.
C20_ResultHasFormatterFields ==
    pc \in {"report", "done"} =>
        \A k \in DOMAIN comparison_results :
            FormatterReads \subseteq DOMAIN comparison_results[k]

(***************************************************************************)
(* Order of the differences (checked under SpecCmp).                       *)
(***************************************************************************)
\* the paths and kinds of a list of differences, in the order of emission
Emitted(ds) == [i \in 1..Len(ds) |-> <<ds[i].path, ds[i].difference>>]

\* C21: the diff list of two values does not depend on the insertion order
\* of the keys of the inputs (mappings are walked in the order of the sorted
\* union of their keys): a first value with the same members under the same
\* keys, inserted in any order, gives the same list.
C21_OrderIndependent ==
    ("deep" \in applied /\ IsDict(obj1) /\ IsDict(obj2)) =>
        \A v \in CmpValues :
            DeepEqual(v, obj1) =>
                Emitted(_deep_compare_structures(v, obj2, <<>>, TRUE)) = Emitted(diffs)

(***************************************************************************)
(* Values of different shapes (checked under SpecCmp).                     *)
(***************************************************************************)
ShapeOf(v) == IF IsDict(v) THEN "mapping" ELSE IF IsList(v) THEN "list" ELSE "scalar"

\* path q lies below path p
Below(q, p) == Len(q) > Len(p) + 1 /\ SubSeq(q, 1, Len(p) + 1) = p \o "."

\* the differences hold for the position at path p, where v1 and v2 stand,
\* one type_changed entry with both type names and nothing below p
OneTypeChanged(p, v1, v2) ==
    /\ Cardinality({i \in 1..Len(diffs) : diffs[i].path = p}) = 1
    /\ \A e \in Entries(diffs) :
          /\ e.path = p =>
                /\ e.difference = "type_changed"
                /\ e.type1 = v1.t
                /\ e.type2 = v2.t
          /\ ~Below(e.path, p)

\* C22: two values of different shapes (mapping, list, scalar) at the same
\* position, in either order, at the root or nested inside a mapping or a
\* list, give exactly one type_changed entry at that path with both type
\* names, and no entry for a path below it.
C22_ShapeMismatchIsTypeChanged ==
    "deep" \in applied =>
        /\ ShapeOf(obj1) # ShapeOf(obj2) => OneTypeChanged("root", obj1, obj2)
        /\ (IsDict(obj1) /\ IsDict(obj2)) =>
              \A k \in KeySet(obj1) \cap KeySet(obj2) :
                  ShapeOf(Item(obj1, k)) # ShapeOf(Item(obj2, k))
                      => OneTypeChanged(k, Item(obj1, k), Item(obj2, k))
        /\ (IsList(obj1) /\ IsList(obj2)) =>
              \A i \in 1..Len(obj1.l) :
                  (i <= Len(obj2.l) /\ ShapeOf(obj1.l[i]) # ShapeOf(obj2.l[i]))
                      => OneTypeChanged(IndexName(i), obj1.l[i], obj2.l[i])

(***************************************************************************)
(* Comparison of two lists (checked under SpecCmp).                        *)
(***************************************************************************)
\* the differences at path p or below it, in order
AtOrBelow(p) == SelectSeq(diffs, LAMBDA e : e.path = p \/ Below(e.path, p))

\* what the pairwise comparison of the elements v1 and v2 at index i gives
PairwiseAt(i, v1, v2) ==
    IF IsContainer(v1)
    THEN _deep_compare_structures(v1, v2, <<IndexName(i)>>, TRUE)
    ELSE IF ~PyEq(v1, v2)
    THEN << [path |-> IndexName(i), difference |-> "array_item_changed",
             value1 |-> Str100(v1), value2 |-> Str100(v2)] >>
    ELSE <<>>

\* the smaller and the greater of two numbers
Smaller(m, n) == IF m < n THEN m ELSE n

Greater(m, n) == IF m < n THEN n ELSE m

\* C23: comparing two lists gives array_length_changed exactly once if and
\* only if the lengths differ, the pairwise comparison of the elements at
\* every index below the shorter length, and exactly one extra_item_in_first
\* (extra_item_in_second) entry for each index at or beyond the shorter
\* length when the first (second) list is the longer.
C23_ListComparison ==
    ("deep" \in applied /\ IsList(obj1) /\ IsList(obj2)) =>
        LET n1 == Len(obj1.l)
            n2 == Len(obj2.l)
        IN  /\ Cardinality({i \in 1..Len(diffs) :
                               diffs[i].difference = "array_length_changed"
                               /\ diffs[i].path = "root"})
                  = (IF n1 # n2 THEN 1 ELSE 0)
            /\ \A i \in 1..Smaller(n1, n2) :
                  AtOrBelow(IndexName(i)) = PairwiseAt(i, obj1.l[i], obj2.l[i])
            /\ \A i \in (Smaller(n1, n2) + 1)..Greater(n1, n2) :
                  /\ Cardinality({j \in 1..Len(diffs) : diffs[j].path = IndexName(i)}) = 1
                  /\ \A e \in Entries(diffs) :
                        e.path = IndexName(i) =>
                            e.difference = (IF n1 > n2 THEN "extra_item_in_first"
                                            ELSE "extra_item_in_second")
            /\ \A e \in Entries(diffs) :
                  \/ e.path = "root" /\ e.difference = "array_length_changed"
                  \/ \E i \in 1..Greater(n1, n2) :
                        e.path = IndexName(i) \/ Below(e.path, IndexName(i))

\* a list of three items has been compared with a list of one other item
C23_Witness ==
    /\ "deep" \in applied
    /\ IsList(obj1) /\ IsList(obj2)
    /\ Len(obj1.l) = 3 /\ Len(obj2.l) = 1
    /\ obj1.l[1] # obj2.l[1]
    /\ Len(diffs) = 4

(***************************************************************************)
(* The values carried by the differences (checked under SpecCmp).          *)
(***************************************************************************)
\* v is a string of at most 100 characters
ShortString(v) == IsStr(v) /\ Len(v.s) <= MaxValueLen

\* the fields of a difference that carry a value
ValueFields == {"value", "value1", "value2", "file1_value", "file2_value"}

\* every value carried by the differences ds is a string of at most 100
\* characters
ValuesShort(ds) ==
    \A e \in ds : \A f \in DOMAIN e \cap ValueFields : ShortString(e[f])

\* every value carried by the differences ds is a string of at most 100
\* characters or None
ValuesShortOrNone(ds) ==
    \A e \in ds : \A f \in DOMAIN e \cap ValueFields : e[f] = JNull \/ ShortString(e[f])

\* the differences _compare_parameters returned
ParamEntries == {pdiffs[p] : p \in DOMAIN pdiffs}

\* C24 as stated: every value carried by a diff entry (value, value1, value2)
\* produced by _deep_compare_structures or _compare_parameters is a string
\* of at most 100 characters, whatever the size of the compared values.
C24_ValuesAreShortStrings ==
    /\ "deep" \in applied =>
          \A include_values \in BOOLEAN :
              ValuesShort(Entries(_deep_compare_structures(obj1, obj2, <<>>, include_values)))
    /\ "params" \in applied => ValuesShort(ParamEntries)

\* C24 amended: every value carried by a diff entry of _compare_parameters,
\* and of _deep_compare_structures called with include_values true, is a
\* string of at most 100 characters, whatever the size of the compared
\* values; called with include_values false, _deep_compare_structures
\* carries None or such a string.
C24_ValuesShortWhenIncluded ==
    /\ "deep" \in applied =>
          /\ ValuesShort(Entries(diffs))
          /\ ValuesShortOrNone(Entries(_deep_compare_structures(obj1, obj2, <<>>, FALSE)))
    /\ "params" \in applied => ValuesShort(ParamEntries)

\* a text of more than 100 characters has been compared by both comparators
\* and is carried cut to 100 characters
C24_Witness ==
    /\ applied = {"deep", "params"}
    /\ obj1 \in CmpLong
    /\ \E e \in Entries(diffs) :
          \E f \in DOMAIN e \cap ValueFields : Len(e[f].s) = MaxValueLen
    /\ \E e \in ParamEntries :
          \E f \in DOMAIN e \cap ValueFields : Len(e[f].s) = MaxValueLen

(***************************************************************************)
(* Response bodies that are no JSON (checked under SpecBody).              *)
(***************************************************************************)
\* the response body of the snapshot x is a string that does not parse
BodyUnparsable(x) ==
    IsStr(Item(x.response, "body")) /\ ~JsonParses(Item(x.response, "body").s)

\* every entry is well-formed, and some entry has a response body that is a
\* string which does not parse as JSON
BadBodyCase ==
    /\ \A e \in AllEntries : ~Malformed(e)
    /\ \E e \in AllEntries : BodyUnparsable(InstanceData(e, 1))

\* the snapshots the source labelled s holds of endpoint k
SnapshotsOfSource(s, k) ==
    UNION { Snapshots(i, k) : i \in {j \in 1..Len(files_data) : file_names[j] = s} }

PairsOf(record) == {d \in SeqRange(record.differences) : d.pair}

\* two endpoint records agree in what aggregation recorded: the set
\* present_in, instance_counts, the pairwise keys and the pairwise data
SameRecord(r1, r2) ==
    /\ SeqRange(r1.present_in) = SeqRange(r2.present_in)
    /\ r1.instance_counts = r2.instance_counts
    /\ {d.key : d \in PairsOf(r1)} = {d.key : d \in PairsOf(r2)}
    /\ PairsOf(r1) = PairsOf(r2)

\* the files and their names taken in the order f
Reordered(seq, f) == [i \in 1..Len(seq) |-> seq[f[i]]]

\* C26: aggregation is independent per source: folding the same sources in
\* any order yields for every endpoint the same record (the same set
\* present_in, the same instance_counts, the same pairwise keys and pairwise
\* data) as folding them in the caller's order.
C26_OrderOfSourcesIrrelevant ==
    (Folded /\ DistinctLabels) =>
        \A f \in Permutations(1..Len(files_data)) :
            LET other == _map_endpoints_across_files(Reordered(files_data, f),
                                                     Reordered(file_names, f))
            IN  /\ DOMAIN other = DOMAIN endpoint_mapping
                /\ \A k \in DOMAIN endpoint_mapping : SameRecord(other[k], endpoint_mapping[k])

\* the actions fold the files as _map_endpoints_across_files does
FoldedAsMapped ==
    Folded => endpoint_mapping = _map_endpoints_across_files(files_data, file_names)

(***************************************************************************)
(* The parse tools of src/server.py.                                        *)
(***************************************************************************)

\* str.lower() on one character
LowerChar(c) ==
    LET uppers == "ABCDEFGHIJKLMNOPQRSTUVWXYZ"
        lowers == "abcdefghijklmnopqrstuvwxyz"
    IN  IF \E i \in 1..Len(uppers) : SubSeq(uppers, i, i) = c
        THEN LET i == CHOOSE j \in 1..Len(uppers) : SubSeq(uppers, j, j) = c
             IN  SubSeq(lowers, i, i)
        ELSE c

RECURSIVE Lower(_)
\* str.lower()
Lower(s) ==
    IF s = "" THEN "" ELSE LowerChar(SubSeq(s, 1, 1)) \o Lower(SubSeq(s, 2, Len(s)))

\* sub in s
Contains(sub, s) ==
    \E i \in 1..(Len(s) - Len(sub) + 1) : SubSeq(s, i, i + Len(sub) - 1) = sub

\* s.endswith(suffix)
EndsWith(s, suffix) ==
    /\ Len(s) >= Len(suffix)
    /\ SubSeq(s, Len(s) - Len(suffix) + 1, Len(s)) = suffix

RECURSIVE ReplaceChars(_, _)
\* s.replace(c, "_") for every character c in chars
ReplaceChars(s, chars) ==
    IF s = "" THEN ""
    ELSE (IF SubSeq(s, 1, 1) \in chars THEN "_" ELSE SubSeq(s, 1, 1))
             \o ReplaceChars(SubSeq(s, 2, Len(s)), chars)

\* os.path.splitext(os.path.basename(file_path))[0] for the model's file names,
\* which have no directory part and one dot
RECURSIVE NameWithoutExt(_)
NameWithoutExt(file_path) ==
    IF file_path = "" \/ SubSeq(file_path, 1, 1) = "." THEN ""
    ELSE SubSeq(file_path, 1, 1) \o NameWithoutExt(SubSeq(file_path, 2, Len(file_path)))

ParseTools == {"parse_charles_log", "parse_charles_log_by_path", "parse_charles_log_by_host"}

SaveTools == {"parse_and_save_charles_log", "parse_and_save_charles_log_by_path",
              "parse_and_save_charles_log_by_host", "parse_and_save_charles_log_exclude_host"}

\* the tools that take a match_type
MatchTools == {"parse_charles_log_by_path", "parse_charles_log_by_host",
               "parse_and_save_charles_log_by_path", "parse_and_save_charles_log_by_host",
               "parse_and_save_charles_log_exclude_host"}

PathTools == {"parse_charles_log_by_path", "parse_and_save_charles_log_by_path"}

HostTools == {"parse_charles_log_by_host", "parse_and_save_charles_log_by_host"}

ExcludeTool == "parse_and_save_charles_log_exclude_host"

\* a line of a log file that json.loads rejects, and a line of white space
GarbageLine == [t |-> "garbage"]

BlankLine == [t |-> "blank"]

\* a file whose bytes open(file_path, 'r').read() cannot decode
Undecodable == <<[t |-> "undecodable"]>>

\* the loading part of _parse_chlsj_file, _parse_chlsj_file_by_path,
\* _parse_chlsj_file_by_host and parse_and_save_charles_log_exclude_host:
\* the whole content as JSON, a value that is not a list wrapped in one;
\* otherwise line by line, skipping the blank and the invalid lines.
\* json.loads(content) succeeds on the whole content when the content is one
\* JSON text (the model writes a JSON text on one line)
LoadEntries(content) ==
    LET texts == SelectSeq(content, LAMBDA line : line # BlankLine)
    IN  IF Len(texts) = 1 /\ texts[1] # GarbageLine
        THEN (IF IsList(texts[1]) THEN texts[1].l ELSE <<texts[1]>>)
        ELSE SelectSeq(texts, LAMBDA line : line # GarbageLine)

\* f.read() raises UnicodeDecodeError, which is not a json.JSONDecodeError
LoadRaises(content) == content = Undecodable

\* any(ext in path.lower() for ext in [".js", ".svg", ".png"])
HasSkippedExtension(path) == \E ext \in {".js", ".svg", ".png"} : Contains(ext, Lower(path))

\* the path test shared by the four filters raises: entry.get on a value that is
\* not a dict, or .lower() on a path that is neither None nor a string
PathTestRaises(entry) ==
    \/ ~IsDict(entry)
    \/ LET entry_path == Get(entry, "path", JStr(""))
       IN  entry_path # JNull /\ ~IsStr(entry_path)

\* path is not None and not any(ext in path.lower() ...)
PathKept(entry) ==
    LET entry_path == Get(entry, "path", JStr(""))
    IN  entry_path # JNull /\ ~HasSkippedExtension(entry_path.s)

\* the test of the match type: "exact" compares, anything else is "contains"
Matches(needle, text, match_type) ==
    IF match_type = "exact" THEN Lower(text) = Lower(needle)
    ELSE Contains(Lower(needle), Lower(text))

\* the filter loop of _parse_chlsj_file_by_path on one entry
PathFilterKeeps(entry, path, match_type) ==
    /\ PathKept(entry)
    /\ Matches(path, Get(entry, "path", JStr("")).s, match_type)

\* the filter loops of _parse_chlsj_file_by_host and of
\* parse_and_save_charles_log_exclude_host raise on one entry: the path test,
\* or .lower() on a host that is neither None nor a string, of an entry the
\* path test did not skip
HostFilterRaises(entry) ==
    \/ PathTestRaises(entry)
    \/ /\ PathKept(entry)
       /\ LET entry_host == Get(entry, "host", JStr(""))
          IN  entry_host # JNull /\ ~IsStr(entry_host)

\* the entry reaches the test of the match type
HostTested(entry) == PathKept(entry) /\ Get(entry, "host", JStr("")) # JNull

HostFilterKeeps(entry, host, match_type) ==
    /\ HostTested(entry)
    /\ Matches(host, Get(entry, "host", JStr("")).s, match_type)

ExcludeFilterKeeps_All(entry, host, match_type) == HostTested(entry)

ExcludeFilterKeeps(entry, host, match_type) ==
    /\ HostTested(entry)
    /\ ~Matches(host, Get(entry, "host", JStr("")).s, match_type)

\* the filter a tool applies to one entry
FilterRaises(tool, entry) ==
    IF tool \in HostTools \cup {ExcludeTool} THEN HostFilterRaises(entry)
    ELSE PathTestRaises(entry)

FilterKeeps(tool, entry, a) ==
    IF tool \in HostTools THEN HostFilterKeeps(entry, a.host, a.match_type)
    ELSE IF tool = ExcludeTool THEN ExcludeFilterKeeps(entry, a.host, a.match_type)
    ELSE IF tool \in PathTools THEN PathFilterKeeps(entry, a.path, a.match_type)
    ELSE PathKept(entry)

\* the positions of the entries a filter loop appends; the loop stops at the
\* first entry that raises
Selected(tool, all_entries, a) ==
    { i \in 1..Len(all_entries) : FilterKeeps(tool, all_entries[i], a) }

RECURSIVE AtPositions(_, _, _)
\* the entries at the positions of a set, in the order of the list
AtPositions(all_entries, positions, i) ==
    IF i > Len(all_entries) THEN <<>>
    ELSE (IF i \in positions THEN <<all_entries[i]>> ELSE <<>>)
             \o AtPositions(all_entries, positions, i + 1)

Filtered(tool, all_entries, a) ==
    AtPositions(all_entries, Selected(tool, all_entries, a), 1)

\* the summary loop raises on an entry: .get on a "request" or a "response"
\* that is not a dict
SummaryRaises(entry) ==
    \/ ~IsDict(Get(entry, "request", JDict(<<>>)))
    \/ ~IsDict(Get(entry, "response", JDict(<<>>)))

\* the detailed loop raises on an entry: .get on a "request" or a "response"
\* that is there and is not a dict
DetailedRaises(entry) ==
    \/ HasKey(entry, "request") /\ ~IsDict(Item(entry, "request"))
    \/ HasKey(entry, "response") /\ ~IsDict(Item(entry, "response"))

FormatRaises(format_type, entries) ==
    IF format_type = "raw" THEN FALSE
    ELSE IF format_type = "summary" THEN \E i \in 1..Len(entries) : SummaryRaises(entries[i])
    ELSE \E i \in 1..Len(entries) : DetailedRaises(entries[i])

RECURSIVE CountMethods(_, _)
\* summary["request_methods"]: the methods, each of them
\* entry.get("request", {}).get("method", "UNKNOWN"), in the order they are
\* first seen, each with its count
CountMethods(entries, counted) ==
    IF entries = <<>> THEN counted
    ELSE LET method == Get(Get(Head(entries), "request", JDict(<<>>)), "method",
                           JStr("UNKNOWN"))
             seen == \E i \in 1..Len(counted) : counted[i][1] = method
         IN  CountMethods(Tail(entries),
                 IF seen
                 THEN [i \in 1..Len(counted) |->
                          IF counted[i][1] = method
                          THEN <<method, counted[i][2] + 1>> ELSE counted[i]]
                 ELSE Append(counted, <<method, 1>>))

\* the entry the detailed loop builds: the basic fields, the method and the
\* size of a request, the status and the size of a response
ProcessedEntry(entry) ==
    LET basic == << <<"url", Get(entry, "url", JStr(""))>>,
                    <<"host", Get(entry, "host", JStr(""))>>,
                    <<"path", Get(entry, "path", JStr(""))>>,
                    <<"status", IF HasKey(entry, "response")
                                    /\ HasKey(Item(entry, "response"), "status")
                                THEN Item(Item(entry, "response"), "status")
                                ELSE Get(entry, "status", JStr(""))>>,
                    <<"duration", Get(entry, "duration", JInt(0))>> >>
        request == IF HasKey(entry, "request")
                   THEN << <<"method", Get(Item(entry, "request"), "method", JStr(""))>>,
                           <<"request_size", Get(Item(entry, "request"), "size", JInt(0))>> >>
                   ELSE <<>>
        response == IF HasKey(entry, "response")
                    THEN << <<"response_size", Get(Item(entry, "response"), "size", JInt(0))>> >>
                    ELSE <<>>
    IN  JDict(basic \o request \o response)

\* the fields that name the filter: none for the whole file, the path or the
\* host with the match type; the summary of the path and of the host filter
\* leaves the match type out, _process_entries_summary has it
FilterFields(tool, a, format_type) ==
    LET match == IF format_type = "summary" /\ tool # ExcludeTool
                 THEN <<>> ELSE << <<"match_type", a.match_type>> >>
    IN  IF tool \in PathTools THEN << <<"filtered_by_path", a.path>> >> \o match
        ELSE IF tool \in HostTools THEN << <<"filtered_by_host", a.host>> >> \o match
        ELSE IF tool = ExcludeTool THEN << <<"excluded_host", a.host>> >> \o match
        ELSE <<>>

\* the result of the format processing: the entries themselves, the counts,
\* or the processed entries
Formatted(tool, entries, a) ==
    IF a.format_type = "raw"
    THEN [format |-> "raw", entries |-> entries,
          filter |-> FilterFields(tool, a, "raw")]
    ELSE IF a.format_type = "summary"
    THEN [format |-> "summary", total_entries |-> Len(entries),
          request_methods |-> CountMethods(entries, <<>>),
          filter |-> FilterFields(tool, a, "summary")]
    ELSE [format |-> "detailed",
          entries |-> [i \in 1..Len(entries) |-> ProcessedEntry(entries[i])],
          filter |-> FilterFields(tool, a, "detailed")]

\* loading, filtering and format processing raise
ParsingRaises(tool, content, a) ==
    \/ LoadRaises(content)
    \/ /\ ~LoadRaises(content)
       /\ LET all_entries == LoadEntries(content)
          IN  \/ \E i \in 1..Len(all_entries) : FilterRaises(tool, all_entries[i])
              \/ /\ \A i \in 1..Len(all_entries) : ~FilterRaises(tool, all_entries[i])
                 /\ FormatRaises(a.format_type, Filtered(tool, all_entries, a))

\* _parse_chlsj_file, _parse_chlsj_file_by_path, _parse_chlsj_file_by_host and
\* lines 328-383 of parse_and_save_charles_log_exclude_host, when they complete
Parsed(tool, content, a) ==
    Formatted(tool, Filtered(tool, LoadEntries(content), a), a)

\* the name of the output file
OutputFile(tool, a) ==
    LET name == NameWithoutExt(a.file_path)
        match_str == IF a.match_type = "exact" THEN "exact" ELSE "contains"
    IN  IF tool \in PathTools
        THEN name \o "_" \o ReplaceChars(a.path, {"/", "?", "=", "&"}) \o "_" \o match_str
                 \o "_parsed.json"
        ELSE IF tool \in HostTools
        THEN name \o "_" \o ReplaceChars(a.host, {".", "/", ":"}) \o "_" \o match_str
                 \o "_parsed.json"
        ELSE IF tool = ExcludeTool
        THEN name \o "_exclude_" \o ReplaceChars(a.host, {".", "/", ":"}) \o "_" \o match_str
                 \o "_parsed.json"
        ELSE name \o "_parsed.json"

\* the dictionary a saving tool returns
Saved(tool, a, result) ==
    IF tool = "parse_and_save_charles_log"
    THEN [status |-> "success", output_file |-> OutputFile(tool, a)]
    ELSE [status |-> "success", output_file |-> OutputFile(tool, a),
          filter |-> FilterFields(tool, a, "raw"),
          entry_count |-> IF tool = ExcludeTool \/ "entries" \in DOMAIN result
                          THEN (IF "entries" \in DOMAIN result THEN Len(result.entries)
                                ELSE result.total_entries)
                          ELSE 0]

ErrorResult(message) == [error |-> message]

\* the checks at the head of every tool: os.path.exists(file_path), the name
\* of the file, the match type
CheckArguments ==
    /\ tool_pc = "called"
    /\ IF tool_args.file_path \notin disk.files
       THEN tool_pc' = "returned" /\ tool_result' = ErrorResult("File not found")
       ELSE IF ~(EndsWith(tool_args.file_path, ".chls") \/ EndsWith(tool_args.file_path, ".chlsj"))
       THEN tool_pc' = "returned" /\ tool_result' = ErrorResult("File must be a Charles log file")
       ELSE IF tool_name \in MatchTools /\ tool_args.match_type \notin {"exact", "contains"}
       THEN tool_pc' = "returned" /\ tool_result' = ErrorResult("Invalid match_type")
       ELSE /\ tool_pc' = IF tool_name \in SaveTools THEN "output_dir" ELSE "parse"
            /\ UNCHANGED tool_result
    /\ UNCHANGED <<tool_name, tool_args, disk>>
    /\ UNCHANGED <<clientVars, reader>>
    /\ UNCHANGED compareVars

\* the saving tools: os.makedirs(output_dir) when the directory is not there
MakeOutputDir ==
    /\ tool_pc = "output_dir"
    /\ IF disk.output_dir = "denied"
       THEN /\ tool_pc' = "returned"
            /\ tool_result' = ErrorResult("Error creating output directory")
            /\ UNCHANGED disk
       ELSE /\ tool_pc' = "parse"
            /\ disk' = [disk EXCEPT !.output_dir = "present"]
            /\ UNCHANGED tool_result
    /\ UNCHANGED <<tool_name, tool_args>>
    /\ UNCHANGED <<clientVars, reader>>
    /\ UNCHANGED compareVars

\* the exception handler of the tool: every tool but
\* parse_and_save_charles_log_exclude_host has its parsing and its writing
\* inside try ... except Exception
Caught(tool) == tool # ExcludeTool

\* a .chls file is refused; a .chlsj file is loaded, filtered and formatted.
\* The tools that do not save return the result
ParseLog ==
    /\ tool_pc = "parse"
    /\ IF ~EndsWith(tool_args.file_path, ".chlsj")
       THEN tool_pc' = "returned"
            /\ tool_result' = ErrorResult("Binary .chls files are not supported yet")
       ELSE IF ParsingRaises(tool_name, disk.content, tool_args)
       THEN IF Caught(tool_name)
            THEN tool_pc' = "returned"
                 /\ tool_result' = ErrorResult("Error parsing .chlsj file")
            ELSE tool_pc' = "raised" /\ UNCHANGED tool_result
       ELSE /\ tool_pc' = IF tool_name \in SaveTools THEN "write" ELSE "returned"
            /\ tool_result' = Parsed(tool_name, disk.content, tool_args)
    /\ UNCHANGED <<tool_name, tool_args, disk>>
    /\ UNCHANGED <<clientVars, reader>>
    /\ UNCHANGED compareVars

\* the saving tools: open(output_file, 'w') and json.dump(result, f); the
\* opening succeeds or raises
WriteOutput ==
    /\ tool_pc = "write"
    /\ \E opened \in BOOLEAN :
          IF opened
          THEN /\ disk' = [disk EXCEPT !.written =
                              @ \cup {[name |-> OutputFile(tool_name, tool_args),
                                       content |-> tool_result]}]
               /\ tool_pc' = "returned"
               /\ tool_result' = Saved(tool_name, tool_args, tool_result)
          ELSE /\ UNCHANGED disk
               /\ IF Caught(tool_name)
                  THEN tool_pc' = "returned"
                       /\ tool_result' = ErrorResult("Error parsing or saving .chlsj file")
                  ELSE tool_pc' = "raised" /\ UNCHANGED tool_result
    /\ UNCHANGED <<tool_name, tool_args>>
    /\ UNCHANGED <<clientVars, reader>>
    /\ UNCHANGED compareVars

NextTool == CheckArguments \/ MakeOutputDir \/ ParseLog \/ WriteOutput

\* log entries: hosts in both cases, a host that contains another, skipped
\* extensions in both cases, null and absent fields, a request, and values
\* that are no entries of a log
LogEntry(host, path) == JDict(<< <<"host", host>>, <<"path", path>> >>)

LogEntries ==
    { LogEntry(JStr("a.com"), JStr("/x")),
      LogEntry(JStr("A.COM"), JStr("/y")),
      LogEntry(JStr("xa.com"), JStr("/x")),
      LogEntry(JStr("b.com"), JStr("/x.js")),
      LogEntry(JStr("a.com"), JStr("/i.PNG")),
      LogEntry(JNull, JStr("/x")),
      LogEntry(JStr("a.com"), JNull),
      JDict(<<>>),
      JDict(<< <<"host", JStr("b.com")>>, <<"path", JStr("/x")>>,
               <<"request", JDict(<< <<"method", JStr("GET")>> >>)>> >>),
      JInt(1),
      LogEntry(JInt(5), JStr("/x")),
      JDict(<< <<"host", JStr("a.com")>>, <<"path", JStr("/x")>>, <<"request", JNull>> >>) }

\* the contents of a .chlsj file: a JSON array of at most two entries or of
\* three, one entry alone, two lines, or bytes that are no text
LogContents ==
    {<<JList(<<>>)>>} \cup { <<JList(<<e>>)>> : e \in LogEntries }
        \cup { <<JList(<<e1, e2>>)>> : e1 \in LogEntries, e2 \in LogEntries }
        \cup { <<JList(<<e1, e2, e3>>)>> :
                   e1 \in {LogEntry(JStr("a.com"), JStr("/x"))},
                   e2 \in {LogEntry(JStr("xa.com"), JStr("/x")), LogEntry(JStr("A.COM"), JStr("/y"))},
                   e3 \in {LogEntry(JStr("b.com"), JStr("/x.js")), LogEntry(JNull, JStr("/x")),
                           JInt(1)} }
        \cup { <<e>> : e \in {LogEntry(JStr("a.com"), JStr("/x"))} }
        \cup { <<l1, l2>> : l1 \in {LogEntry(JStr("a.com"), JStr("/x")), GarbageLine},
                            l2 \in {LogEntry(JStr("b.com"), JStr("/x")), GarbageLine,
                                    BlankLine, JInt(1)} }
        \cup {Undecodable}

FilePaths == {"missing.chlsj", "notes.txt", "session.chls", "session.chlsj"}

\* a tool is called on the files of a disk
InitTool ==
    /\ PipeIdle
    /\ obj1 = JNull /\ obj2 = JNull /\ applied = {} /\ diffs = <<>>
    /\ pdiffs = NoDifferences /\ calls = <<>>
    /\ ClientIdle
    /\ ReaderIdle
    /\ tool_pc = "called"
    /\ tool_result = <<>>
    /\ \E tool \in ParseTools \cup SaveTools, file_path \in FilePaths,
          needle \in {"a.com", "COM"}, match_type \in {"exact", "contains", "regex"},
          format_type \in {"summary", "detailed", "raw"} :
          /\ tool_name = tool
          /\ tool_args = [file_path |-> file_path,
                          host |-> IF tool \in HostTools \cup {ExcludeTool} THEN needle ELSE "",
                          path |-> IF tool \in PathTools THEN "/x" ELSE "",
                          match_type |-> IF tool \in MatchTools THEN match_type ELSE "",
                          format_type |-> format_type]
          /\ tool \notin MatchTools => match_type = "exact" /\ needle = "a.com"
          /\ tool \in PathTools => needle = "a.com"
          /\ \E content \in LogContents, output_dir \in {"present", "absent", "denied"} :
                /\ file_path # "session.chlsj" => content = <<JList(<<>>)>>
                /\ tool \in ParseTools => output_dir = "present"
                /\ disk = [files |-> FilePaths \ {"missing.chlsj"},
                           content |-> content,
                           output_dir |-> output_dir,
                           written |-> {}]

SpecTool == InitTool /\ [][NextTool]_vars

(***************************************************************************)
(* Properties of the parse tools.                                           *)
(***************************************************************************)

\* the inputs every tool is to answer with an error: a missing file, a name
\* that ends in neither .chls nor .chlsj, a match type that is neither exact nor
\* contains, a .chls file, content whose entries cannot be processed
RefusedInput ==
    \/ tool_args.file_path \notin disk.files
    \/ ~EndsWith(tool_args.file_path, ".chlsj")
    \/ tool_name \in MatchTools /\ tool_args.match_type \notin {"exact", "contains"}
    \/ ParsingRaises(tool_name, disk.content, tool_args)

\* C27: every parse tool returns a dictionary and never raises; on a refused
\* input the dictionary has an "error" field and no output file is written
C27_ToolsReturnErrors ==
    /\ tool_pc # "raised"
    /\ tool_pc = "returned" /\ RefusedInput =>
           "error" \in DOMAIN tool_result /\ disk.written = {}

\* the six tools with an exception handler do so
C27_CaughtToolsReturnErrors ==
    tool_name # ExcludeTool => C27_ToolsReturnErrors

\* the entries of the log file of the disk
AllEntries30 == LoadEntries(disk.content)

\* the host filter or the exclude filter has run on the entries of a .chlsj
\* file that can be read, with a match type the tools accept
FilterCase ==
    /\ tool_name \in {"parse_charles_log_by_host", ExcludeTool}
    /\ tool_pc \in {"returned", "raised"}
    /\ tool_args.file_path = "session.chlsj"
    /\ tool_args.match_type \in {"exact", "contains"}
    /\ ~LoadRaises(disk.content)

\* the positions of the entries a filter selects: none when its loop raises
SelectedBy(tool) ==
    IF \E i \in 1..Len(AllEntries30) : FilterRaises(tool, AllEntries30[i]) THEN {}
    ELSE Selected(tool, AllEntries30, tool_args)

\* an entry with a host that is not null, a path that is not null and none of
\* the three extensions in the path; a field that is absent counts as ""
Eligible(entry) ==
    /\ IsDict(entry)
    /\ Get(entry, "host", JStr("")) # JNull
    /\ Get(entry, "path", JStr("")) # JNull
    /\ IsStr(Get(entry, "path", JStr(""))) =>
           ~HasSkippedExtension(Get(entry, "path", JStr("")).s)

\* the two selections are disjoint and together the eligible entries
Partition ==
    /\ SelectedBy("parse_charles_log_by_host") \cap SelectedBy(ExcludeTool) = {}
    /\ SelectedBy("parse_charles_log_by_host") \cup SelectedBy(ExcludeTool)
           = { i \in 1..Len(AllEntries30) : Eligible(AllEntries30[i]) }

\* the raw result of the host filter, and the raw file the exclude tool wrote,
\* hold the entries at the selected positions
RawIsSelection ==
    /\ tool_name = "parse_charles_log_by_host" /\ tool_pc = "returned"
           /\ tool_args.format_type = "raw" /\ "entries" \in DOMAIN tool_result =>
           tool_result.entries = AtPositions(AllEntries30, SelectedBy(tool_name), 1)
    /\ tool_name = ExcludeTool /\ tool_args.format_type = "raw" =>
           \A w \in disk.written :
               w.content.entries = AtPositions(AllEntries30, SelectedBy(tool_name), 1)

\* every entry of the file is an object whose path is a string or null and
\* whose host, when the path does not skip the entry, is a string or null
EntriesWellFormed ==
    \A i \in 1..Len(AllEntries30) : ~HostFilterRaises(AllEntries30[i])

\* C30 as stated: for any log file, host and match type (exact or contains) the
\* entries selected by the host filter and by the exclude filter, raw format,
\* are disjoint and together are the entries with a host that is not null, a
\* path that is not null and no ".js", ".svg" or ".png" in the path
C30_FiltersPartition == FilterCase => Partition /\ RawIsSelection

\* C30 amended: the same for a log file whose entries are well formed
C30_FiltersPartitionWellFormed ==
    FilterCase /\ EntriesWellFormed => Partition /\ RawIsSelection

\* the exclude tool has written a raw file of a log with an entry for each of
\* the two filters and an entry for neither
C30_Witness ==
    /\ FilterCase /\ EntriesWellFormed
    /\ tool_name = ExcludeTool /\ tool_pc = "returned" /\ tool_args.format_type = "raw"
    /\ disk.written # {}
    /\ SelectedBy("parse_charles_log_by_host") # {}
    /\ SelectedBy(ExcludeTool) # {}
    /\ \E w \in disk.written : w.content.entries # <<>>
    /\ \E i \in 1..Len(AllEntries30) : ~Eligible(AllEntries30[i])

(***************************************************************************)
(* src/client.py: main.  The client calls the tools of the server one      *)
(* after the other and prints each result under a heading.                  *)
(***************************************************************************)

\* needs_save = args.save or args.dashboard
needs_save == args.save \/ args.dashboard

\* the arguments of a call: the tools without a host are sent none
Arguments(with_host) ==
    [file_path |-> args.file_path,
     host |-> IF with_host THEN args.host ELSE "",
     path |-> "",
     match_type |-> IF with_host THEN args.match_type ELSE "",
     format_type |-> args.format]

\* session.call_tool(tool, arguments): the server starts the tool
CallTool(tool, with_host) ==
    /\ tool_name' = tool
    /\ tool_args' = Arguments(with_host)
    /\ tool_pc' = "called"
    /\ tool_result' = <<>>
    /\ UNCHANGED disk

\* the tool has ended: it returned its dictionary or raised
ToolEnded == tool_pc \in {"returned", "raised"}

\* what call_tool hands to the client: the dictionary of the tool, or the
\* error the server makes of an exception in the tool
Received == IF tool_pc = "raised" THEN [isError |-> TRUE] ELSE tool_result

\* a result is printed under a heading; is_dict is isinstance(result, dict)
PrintResult(heading, is_dict) ==
    /\ tool_calls' = Append(tool_calls,
           [tool |-> tool_name, arguments |-> tool_args, heading |-> heading,
            result |-> Received, is_dict |-> is_dict])
    /\ tool_pc' = "idle"
    /\ UNCHANGED <<tool_name, tool_args, tool_result, disk>>

\* the call of the result printed under a heading
CallUnder(heading) ==
    tool_calls[CHOOSE i \in 1..Len(tool_calls) : tool_calls[i].heading = heading]

\* isinstance(result, dict) and "output_file" in result
HasOutputFile(call) == call.is_dict /\ "output_file" \in DOMAIN call.result

\* if args.host: the entries matching the host are asked for (48-71)
RequestMatching ==
    /\ client_pc = "start"
    /\ args.host # ""
    /\ CallTool(IF needs_save THEN "parse_and_save_charles_log_by_host"
                ELSE "parse_charles_log_by_host", TRUE)
    /\ client_pc' = "awaiting_matching"
    /\ UNCHANGED <<args, tool_calls, reader>>
    /\ UNCHANGED compareVars

\* the result is printed under "Entries matching host" (73-79)
PrintMatching ==
    /\ client_pc = "awaiting_matching"
    /\ ToolEnded
    /\ \E is_dict \in BOOLEAN : PrintResult("Entries matching host", is_dict)
    /\ client_pc' = "matching_printed"
    /\ UNCHANGED <<args, reader>>
    /\ UNCHANGED compareVars

\* the second call (81-102)
RequestNotMatching ==
    /\ client_pc = "matching_printed"
    /\ CallTool(IF needs_save THEN "parse_and_save_charles_log_exclude_host"
                ELSE "parse_charles_log_by_host", TRUE)
    /\ client_pc' = "awaiting_not_matching"
    /\ UNCHANGED <<args, tool_calls, reader>>
    /\ UNCHANGED compareVars

\* its result is printed under "Entries not matching host" (104-110)
PrintNotMatching ==
    /\ client_pc = "awaiting_not_matching"
    /\ ToolEnded
    /\ \E is_dict \in BOOLEAN : PrintResult("Entries not matching host", is_dict)
    /\ client_pc' = "not_matching_printed"
    /\ UNCHANGED <<args, reader>>
    /\ UNCHANGED compareVars

\* a call of view_charles_log_dashboard on the output file of a printed result;
\* the call returns or raises, and an exception ends the client with status 1
Dashboard(call, heading, next_pc) ==
    IF args.dashboard /\ HasOutputFile(call)
    THEN \E returns \in BOOLEAN :
            IF returns
            THEN /\ tool_calls' = Append(tool_calls,
                        [tool |-> "view_charles_log_dashboard",
                         arguments |-> [file_path |-> call.result.output_file],
                         heading |-> heading,
                         result |-> [dashboard |-> call.result.output_file],
                         is_dict |-> FALSE])
                 /\ client_pc' = next_pc
            ELSE /\ client_pc' = "exit_1"
                 /\ UNCHANGED tool_calls
    ELSE /\ client_pc' = next_pc
         /\ UNCHANGED tool_calls

\* the dashboard of the matching entries (112-125)
DashboardMatching ==
    /\ client_pc = "not_matching_printed"
    /\ Dashboard(CallUnder("Entries matching host"),
                 "Opening dashboard for matching entries...", "dashboard_matching_done")
    /\ UNCHANGED <<args, reader>>
    /\ UNCHANGED toolVars
    /\ UNCHANGED compareVars

\* the dashboard of the other entries (127-138)
DashboardNotMatching ==
    /\ client_pc = "dashboard_matching_done"
    /\ Dashboard(CallUnder("Entries not matching host"),
                 "Opening dashboard for non-matching entries...", "done")
    /\ UNCHANGED <<args, reader>>
    /\ UNCHANGED toolVars
    /\ UNCHANGED compareVars

\* without a host the whole file is asked for (141-158)
RequestWhole ==
    /\ client_pc = "start"
    /\ args.host = ""
    /\ CallTool(IF needs_save THEN "parse_and_save_charles_log" ELSE "parse_charles_log", FALSE)
    /\ client_pc' = "awaiting_whole"
    /\ UNCHANGED <<args, tool_calls, reader>>
    /\ UNCHANGED compareVars

\* the result is printed without a heading (160-164)
PrintWhole ==
    /\ client_pc = "awaiting_whole"
    /\ ToolEnded
    /\ \E is_dict \in BOOLEAN : PrintResult("", is_dict)
    /\ client_pc' = "whole_printed"
    /\ UNCHANGED <<args, reader>>
    /\ UNCHANGED compareVars

\* its dashboard (166-177)
DashboardWhole ==
    /\ client_pc = "whole_printed"
    /\ Dashboard(CallUnder(""), "", "done")
    /\ UNCHANGED <<args, reader>>
    /\ UNCHANGED toolVars
    /\ UNCHANGED compareVars

\* call_tool raises, the connection to the server being lost: except
\* Exception prints the error and the client exits with status 1 (179-181)
CallFails ==
    /\ client_pc \in {"awaiting_matching", "awaiting_not_matching", "awaiting_whole"}
    /\ client_pc' = "exit_1"
    /\ tool_pc' = "idle"
    /\ UNCHANGED <<tool_name, tool_args, tool_result, disk>>
    /\ UNCHANGED <<args, tool_calls, reader>>
    /\ UNCHANGED compareVars

NextClient ==
    \/ RequestMatching \/ PrintMatching \/ RequestNotMatching \/ PrintNotMatching
    \/ DashboardMatching \/ DashboardNotMatching
    \/ RequestWhole \/ PrintWhole \/ DashboardWhole
    \/ CallFails
    \/ NextTool

\* the logs the client is run on: entries of the host, of other hosts and of
\* neither filter; a log whose entries cannot be processed
ClientContents ==
    { <<JList(<<LogEntry(JStr("a.com"), JStr("/x")), LogEntry(JStr("xa.com"), JStr("/x")),
                LogEntry(JStr("b.com"), JStr("/x.js"))>>)>>,
      <<JList(<<LogEntry(JStr("a.com"), JStr("/x"))>>)>>,
      <<JList(<<JInt(1)>>)>> }

\* the command line: --format and --match-type take their choices, --save
\* and --dashboard are flags, --host is given or not
InitClient ==
    /\ PipeIdle
    /\ obj1 = JNull /\ obj2 = JNull /\ applied = {} /\ diffs = <<>>
    /\ pdiffs = NoDifferences /\ calls = <<>>
    /\ ReaderIdle
    /\ tool_name = "none" /\ tool_args = <<>> /\ tool_pc = "idle" /\ tool_result = <<>>
    /\ client_pc = "start"
    /\ tool_calls = <<>>
    /\ \E file_path \in {"session.chlsj", "session.chls"}, host \in {"", "a.com"},
          save \in BOOLEAN, dashboard \in BOOLEAN,
          format \in {"summary", "detailed", "raw"}, match_type \in {"exact", "contains"} :
          args = [file_path |-> file_path, host |-> host, save |-> save,
                  dashboard |-> dashboard, format |-> format, match_type |-> match_type]
    /\ \E content \in ClientContents, output_dir \in {"present", "denied"} :
          disk = [files |-> FilePaths \ {"missing.chlsj"}, content |-> content,
                  output_dir |-> output_dir, written |-> {}]

SpecClient == InitClient /\ [][NextClient]_vars

(***************************************************************************)
(* Properties of the client.                                                *)
(***************************************************************************)

\* the calls whose result is printed under "Entries not matching host"
NotMatchingCalls ==
    { i \in 1..Len(tool_calls) : tool_calls[i].heading = "Entries not matching host" }

\* the entries of a printed result match the host of the command line
PrintsMatchingEntries(call) ==
    /\ "entries" \in DOMAIN call.result
    /\ call.result.entries # <<>>
    /\ \A i \in 1..Len(call.result.entries) :
           HostFilterKeeps(call.result.entries[i], args.host, args.match_type)

\* C28: with --host the second call is the exclude operation, and its result
\* is what is printed as "Entries not matching host", with or without --save
\* and --dashboard
C28_SecondCallExcludes ==
    \A i \in NotMatchingCalls :
        /\ i = 2
        /\ tool_calls[i].tool = ExcludeTool
        /\ tool_calls[i].arguments.host = args.host
        /\ ~PrintsMatchingEntries(tool_calls[i])

\* the same with --save or --dashboard
C28_SecondCallExcludesWhenSaving ==
    needs_save => C28_SecondCallExcludes

\* without --save and --dashboard the second call repeats the first
C28_SecondCallRepeatsFirst ==
    ~needs_save =>
        \A i \in NotMatchingCalls :
            /\ tool_calls[i].tool = tool_calls[1].tool
            /\ tool_calls[i].arguments = tool_calls[1].arguments
            /\ tool_calls[i].result = tool_calls[1].result

(***************************************************************************)
(* read_large_file_part of src/server.py and the loop of                    *)
(* src/large_file_example.py over it.  A file is a sequence of characters,  *)
(* one of them two bytes wide in UTF-8; offsets and lengths count bytes.    *)
(***************************************************************************)

\* the largest file, in characters, and the largest chunk length
MaxChars == 4

MaxChunk == 3

\* a character that UTF-8 encodes in two bytes
WideChar == "U+00E9"

FileChars == {"[", "]", "1", " ", WideChar}

\* the bytes of the encoding of a character
Width(c) == IF c = WideChar THEN 2 ELSE 1

RECURSIVE ByteLen(_)
\* os.path.getsize for the text of a file
ByteLen(text) == IF text = <<>> THEN 0 ELSE Width(Head(text)) + ByteLen(Tail(text))

\* the characters before a byte offset, when the offset is where a character
\* begins or the end of the text
CharsBefore(text, offset) ==
    CHOOSE k \in 0..Len(text) : ByteLen(SubSeq(text, 1, k)) = offset

\* f.seek(offset); f.read(...) raises UnicodeDecodeError: the offset is inside
\* the encoding of a character
DecodeRaises(text, offset) ==
    ~\E k \in 0..Len(text) : ByteLen(SubSeq(text, 1, k)) = offset

\* f.seek(offset); f.read(count): count characters from the offset on
ReadChars(text, offset, count) ==
    LET from == CharsBefore(text, offset) + 1
        upto == IF from + count - 1 > Len(text) THEN Len(text) ELSE from + count - 1
    IN  SubSeq(text, from, upto)

RECURSIVE Strip(_)
\* str.strip()
Strip(text) ==
    IF text = <<>> THEN <<>>
    ELSE IF Head(text) = " " THEN Strip(Tail(text))
    ELSE IF text[Len(text)] = " " THEN Strip(SubSeq(text, 1, Len(text) - 1))
    ELSE text

RECURSIVE IsJson(_)
\* json.loads accepts a text without white space around it: a number of the
\* digit 1, or an array that is empty or holds one such value
IsJson(text) ==
    IF text = <<>> THEN FALSE
    ELSE IF \A i \in 1..Len(text) : text[i] = "1" THEN TRUE
    ELSE /\ Len(text) >= 2
         /\ text[1] = "["
         /\ text[Len(text)] = "]"
         /\ LET inner == Strip(SubSeq(text, 2, Len(text) - 1))
            IN  inner = <<>> \/ IsJson(inner)

\* json.loads(content) succeeds
LoadsText(text) == IsJson(Strip(text))

\* sample.strip().startswith('[') for the sample f.read(min(1000, file_size))
StartsArray(text) == Strip(text) # <<>> /\ Strip(text)[1] = "["

\* read_large_file_part(file_path, start_offset, length) on a file with a text
read_large_file_part(exists, file_path, text, start_offset, length) ==
    LET file_size == ByteLen(text)
        read_length == IF start_offset + length > file_size
                       THEN file_size - start_offset ELSE length
        is_json_array == start_offset = 0 /\ StartsArray(text)
        content == ReadChars(text, start_offset, read_length)
        next_offset == IF is_json_array THEN file_size ELSE start_offset + read_length
    IN  IF ~exists THEN ErrorResult("File not found")
        ELSE IF ~(EndsWith(file_path, ".chls") \/ EndsWith(file_path, ".chlsj"))
        THEN ErrorResult("File must be a Charles log file")
        ELSE IF start_offset < 0 \/ start_offset >= file_size
        THEN ErrorResult("Invalid offset")
        ELSE IF ~EndsWith(file_path, ".chlsj")
        THEN ErrorResult("Binary .chls files are not supported yet")
        ELSE IF is_json_array /\ ~LoadsText(text)
        THEN ErrorResult("Error parsing JSON array")
        ELSE IF ~is_json_array /\ DecodeRaises(text, start_offset)
        THEN ErrorResult("Error reading file")
        ELSE [entries |-> IF is_json_array THEN <<Strip(text)>>
                          ELSE IF LoadsText(content) THEN <<Strip(content)>> ELSE <<>>,
              metadata |->
                  [file_size |-> file_size,
                   current_offset |-> start_offset,
                   read_bytes |-> read_length,
                   has_more |-> next_offset < file_size,
                   next_offset |-> IF next_offset < file_size THEN JInt(next_offset) ELSE JNull,
                   format |-> IF is_json_array THEN "json_array" ELSE "line_by_line"]]

\* the loop calls the tool with its offset
CallReadPart ==
    /\ reader # <<>>
    /\ reader.pc = "loop"
    /\ reader.has_more
    /\ reader' = [reader EXCEPT
           !.pc = "called",
           !.offsets = Append(@, reader.offset),
           !.result = read_large_file_part(reader.exists, reader.file_path, reader.text,
                                           reader.offset, reader.length)]
    /\ UNCHANGED <<toolVars, clientVars>>
    /\ UNCHANGED compareVars

\* the body of the loop after the call: an error ends process_large_file; the
\* metadata give has_more and the next offset
ProcessPart ==
    /\ reader # <<>>
    /\ reader.pc = "called"
    /\ IF "error" \in DOMAIN reader.result
       THEN reader' = [reader EXCEPT !.pc = "returned_on_error"]
       ELSE LET metadata == reader.result.metadata
                next_offset == metadata.next_offset
                stops == next_offset = JNull /\ metadata.read_bytes = 0
            IN  reader' = [reader EXCEPT
                    !.pc = "loop",
                    !.chunks_processed = @ + 1,
                    !.total_entries = @ + Len(reader.result.entries),
                    !.has_more = IF stops THEN FALSE ELSE metadata.has_more,
                    !.offset = IF next_offset # JNull THEN next_offset.i
                               ELSE @ + metadata.read_bytes]
    /\ UNCHANGED <<toolVars, clientVars>>
    /\ UNCHANGED compareVars

\* while has_more: the loop ends, the statistics are printed
LeaveLoop ==
    /\ reader # <<>>
    /\ reader.pc = "loop"
    /\ ~reader.has_more
    /\ reader' = [reader EXCEPT !.pc = "done"]
    /\ UNCHANGED <<toolVars, clientVars>>
    /\ UNCHANGED compareVars

NextReader == CallReadPart \/ ProcessPart \/ LeaveLoop

\* the texts of at most n characters
TextsUpTo(n) == UNION { [1..k -> FileChars] : k \in 0..n }

\* process_large_file starts: offset = 0, has_more = True
InitReader ==
    /\ PipeIdle
    /\ obj1 = JNull /\ obj2 = JNull /\ applied = {} /\ diffs = <<>>
    /\ pdiffs = NoDifferences /\ calls = <<>>
    /\ ToolIdle
    /\ ClientIdle
    /\ \E file_path \in {"big.chlsj", "big.chls", "big.txt"}, exists \in BOOLEAN,
          text \in TextsUpTo(MaxChars), length \in 1..MaxChunk :
          /\ ~exists \/ file_path # "big.chlsj" => text = <<"1">> /\ length = 1
          /\ ~exists => file_path = "big.chlsj"
          /\ reader = [file_path |-> file_path, exists |-> exists, text |-> text,
                       length |-> length, offset |-> 0, has_more |-> TRUE, pc |-> "loop",
                       total_entries |-> 0, chunks_processed |-> 0,
                       offsets |-> <<>>, result |-> <<>>]

SpecReader == InitReader /\ [][NextReader]_vars

(***************************************************************************)
(* Properties of the reader.                                                *)
(***************************************************************************)

\* an existing .chlsj file of at least one byte is read with a chunk length of
\* at least 1
ReaderCase ==
    /\ reader.exists
    /\ reader.file_path = "big.chlsj"
    /\ ByteLen(reader.text) >= 1
    /\ reader.length >= 1

\* the offsets of the calls made so far increase and stay below the file size
OffsetsIncrease ==
    \A i \in 1..Len(reader.offsets) :
        /\ reader.offsets[i] < ByteLen(reader.text)
        /\ i > 1 => reader.offsets[i] > reader.offsets[i - 1]

\* a result with metadata has has_more true exactly when next_offset is not null
MoreIffNext ==
    "metadata" \in DOMAIN reader.result =>
        (reader.result.metadata.has_more <=> reader.result.metadata.next_offset # JNull)

\* the loop has ended on a result with has_more false and next_offset null
EndedAtEnd ==
    reader.pc \in {"done", "returned_on_error"} =>
        /\ "metadata" \in DOMAIN reader.result
        /\ ~reader.result.metadata.has_more
        /\ reader.result.metadata.next_offset = JNull

ReaderAsClaimed == OffsetsIncrease /\ MoreIffNext /\ EndedAtEnd

\* C29: for any existing .chlsj file of at least one byte and any chunk length
\* of at least 1 the offsets of the calls increase strictly and stay below the
\* file size, has_more is true exactly when next_offset is not null, and the
\* last result has has_more false and next_offset null
C29_ReaderReachesEnd == ReaderCase => ReaderAsClaimed

\* the same for the files that do not start as a JSON array
C29_LineReaderReachesEnd ==
    ReaderCase /\ ~StartsArray(reader.text) => ReaderAsClaimed

\* the text of the file is ASCII
Ascii(text) == \A i \in 1..Len(text) : text[i] # WideChar

\* the same for the ASCII files that are a JSON array or do not start as one
C29_AsciiReaderReachesEnd ==
    ReaderCase /\ Ascii(reader.text) /\ (StartsArray(reader.text) => LoadsText(reader.text))
        => ReaderAsClaimed

\* every turn of the loop that goes on moves the offset forward, below the
\* file size: the loop makes at most as many calls as the file has bytes
C29_OffsetAdvances ==
    [][reader # <<>> /\ reader.pc = "called" /\ reader'.pc = "loop" /\ reader'.has_more
           => reader'.offset > reader.offset /\ reader'.offset < ByteLen(reader.text)]_vars

\* a file of several chunks has been read to its end
C29_Witness ==
    /\ ReaderCase /\ Ascii(reader.text)
    /\ reader.pc = "done"
    /\ Len(reader.offsets) >= 3
    /\ reader.total_entries >= 1

====
